---- MODULE Spec2Model ----
(***************************************************************************)
(* Model of the Crossref RSS feed generator (enhanced_minimal_rss.py):     *)
(* the remote metadata client, the text normalizer, the feed assembler     *)
(* and the combined-feed request handler.                                  *)
(*                                                                         *)
(* Text is a sequence of one-character strings.  A JSON value (a field of  *)
(* a record returned by the remote service, or of a journal config) is a   *)
(* tagged record: Absent (key missing), Null, Str(text), List(sequence),   *)
(* Obj(record).                                                            *)
(***************************************************************************)
EXTENDS Integers, Sequences, FiniteSets, TLC

VARIABLES
    entry,            \* the program run: "stdlib" (enhanced_minimal_rss.py) or "flask"
    email,            \* the contact email of the environment (EMAIL, MW_ADMIN_EMAIL)
    stdin,            \* what the operator types when main() prompts for the email
    config_file,      \* rss_journals.json on disk
    served,           \* has the process answered a request before this one?
    request,          \* the GET request being handled: path and query values
    journals_config,  \* FixedEnhancedMinimalRSSGenerator.journals_config
    journal_config,   \* what find_journal_by_identifier gave (index, 0 for None)
    pc,               \* position of the process and of its request handler
    days_back,        \* parsed 'days' of the request being served
    max_per_journal,  \* per-journal limit of the combined request
    idx,              \* loop index of generate_combined_feed, 1-based
    all_articles,     \* all_articles of generate_combined_feed
    calls,            \* log of the client calls of this request
    response,         \* what the handler sent for the request
    article,          \* argument of add_article_to_feed (item specification)
    feed_config,      \* argument of add_article_to_feed (item specification)
    item,             \* element built by add_article_to_feed
    input_text,       \* argument of clean_text (text specification)
    cleaned,          \* what clean_text returned
    feed_articles,    \* argument of create_rss_feed (feed specification)
    document,         \* what create_rss_feed returned
    issn_file,        \* lines of the ISSN list given to generate_config
    issns,            \* what read_issn_list returned
    config_entries,   \* config_entries of generate_config
    lookups,          \* outcome of the remote lookup made for each ISSN
    output_file,      \* the config file generate_config writes
    validated         \* what validate_generated_config returned

\* The process and its environment.
procVars == <<entry, email, stdin, config_file, served>>
\* The request handler and the generator it constructed.
handlerVars == <<request, journals_config, journal_config, pc, days_back,
                 max_per_journal, idx, all_articles, calls, response>>
itemVars == <<article, feed_config, item>>
textVars == <<input_text, cleaned>>
feedVars == <<feed_articles, document>>
genVars == <<issn_file, issns, config_entries, lookups, output_file, validated>>

vars == <<procVars, handlerVars, itemVars, textVars, feedVars, genVars>>

-----------------------------------------------------------------------------
(* JSON values *)

Absent == [k |-> "absent"]
Null == [k |-> "null"]
Str(s) == [k |-> "str", v |-> s]
List(l) == [k |-> "list", v |-> l]
Obj(o) == [k |-> "obj", v |-> o]
Num(n) == [k |-> "num", v |-> n]

\* Python truthiness of dict.get(key): None, "", [] and {} are falsy.
Truthy(x) ==
    CASE x.k = "absent" -> FALSE
      [] x.k = "null" -> FALSE
      [] x.k = "str" -> x.v /= <<>>
      [] x.k = "list" -> x.v /= <<>>
      [] x.k = "obj" -> \E f \in DOMAIN x.v : x.v[f].k /= "absent"
      [] x.k = "num" -> x.v /= 0

\* dict.get(key, default): the default only when the key is missing.
Get(x, default) == IF x.k = "absent" THEN default ELSE x

-----------------------------------------------------------------------------
(* Literal texts of the program *)

UNTITLED == <<"U","n","t","i","t","l","e","d">>
DOI_PREFIX == <<"h","t","t","p","s",":","/","/","d","o","i",".","o","r","g","/">>
ELLIPSIS == <<".",".",".">>
AUTHORS_PREFIX == <<"A","u","t","h","o","r","s",":"," ">>
COMMA_SP == <<","," ">>
ET_AL == <<" ","e","t"," ","a","l",".">>
NO_DESCRIPTION == <<"N","o"," ","d","e","s","c","r","i","p","t","i","o","n"," ","a","v","a","i","l","a","b","l","e">>
UNKNOWN_JOURNAL == <<"U","n","k","n","o","w","n"," ","J","o","u","r","n","a","l">>
COMBINED_FEED == <<"C","o","m","b","i","n","e","d"," ","F","e","e","d">>

-----------------------------------------------------------------------------
(* Text helpers *)

Take(s, n) == SubSeq(s, 1, IF n < Len(s) THEN n ELSE Len(s))
Drop(s, n) == SubSeq(s, n + 1, Len(s))
StartsWithAt(s, i, p) ==
    /\ i + Len(p) - 1 <= Len(s)
    /\ \A j \in 1..Len(p) : s[i + j - 1] = p[j]

\* Least index in lo..hi whose character is in cs, hi + 1 when none
\* (by halving, so that long texts do not nest deeply).
RECURSIVE FindIn(_, _, _, _)
FindIn(s, lo, hi, cs) ==
    IF lo > hi THEN hi + 1
    ELSE IF lo = hi THEN (IF s[lo] \in cs THEN lo ELSE hi + 1)
    ELSE LET mid == (lo + hi) \div 2
             l == FindIn(s, lo, mid, cs)
         IN  IF l <= mid THEN l ELSE FindIn(s, mid + 1, hi, cs)

\* Greatest index in lo..hi whose character is in cs, lo - 1 when none.
RECURSIVE FindLastIn(_, _, _, _)
FindLastIn(s, lo, hi, cs) ==
    IF lo > hi THEN lo - 1
    ELSE IF lo = hi THEN (IF s[lo] \in cs THEN lo ELSE lo - 1)
    ELSE LET mid == (lo + hi) \div 2
             r == FindLastIn(s, mid + 1, hi, cs)
         IN  IF r > mid THEN r ELSE FindLastIn(s, lo, mid, cs)

\* Least index >= i whose character is in cs, Len(s) + 1 when none.
FindFrom(s, i, cs) == FindIn(s, i, Len(s), cs)

CharsOf(s) == {s[j] : j \in 1..Len(s)}

\* Characters Python's \s and str.strip() treat as whitespace.
Whitespace == {" ", "\t", "\n", "\r", "\f"}

\* A left-to-right scan of a text: i is the next index to read, out the text
\* produced so far.  Each scanner below is a step of such a scan, repeated
\* until the text is consumed (Len(s) steps always suffice).
ScanStart == [i |-> 1, out |-> <<>>]

-----------------------------------------------------------------------------
(* html.unescape, for the entity names the inputs use *)

\* html.entities.html5 restricted to amp, lt, gt, quot: each is defined with
\* and without the closing semicolon.
EntityChar(name) ==
    CASE name = <<"a","m","p">> -> "&"
      [] name = <<"l","t">> -> "<"
      [] name = <<"g","t">> -> ">"
      [] name = <<"q","u","o","t">> -> "\""
      [] OTHER -> ""

Html5(s) ==
    IF s /= <<>> /\ s[Len(s)] = ";" THEN EntityChar(Take(s, Len(s) - 1))
    ELSE EntityChar(s)

\* Characters that end the name of a character reference:
\* [^\t\n\f <&#;] in the regular expression of html.unescape.
NameStop == {"\t", "\n", "\f", " ", "<", "&", "#", ";"}

\* replace_charref for a named reference s (without the leading '&'): the
\* exact name, else the longest prefix of length len(s)-1 .. 2 that is a
\* name, else the text unchanged.
RECURSIVE PrefixRef(_, _)
PrefixRef(s, x) ==
    IF x < 2 THEN <<"&">> \o s
    ELSE IF Html5(Take(s, x)) /= "" THEN <<Html5(Take(s, x))>> \o Drop(s, x)
    ELSE PrefixRef(s, x - 1)

ReplaceCharref(s) ==
    IF Html5(s) /= "" THEN <<Html5(s)>> ELSE PrefixRef(s, Len(s) - 1)

\* One match of &([^\t\n\f <&#;]{1,32};?) or one character copied.
UnescapeStep(s, st) ==
    LET i == st.i
    IN  IF i > Len(s) THEN st
        ELSE IF s[i] /= "&" THEN [i |-> i + 1, out |-> Append(st.out, s[i])]
        ELSE
            LET lim == IF i + 32 < Len(s) THEN i + 32 ELSE Len(s)
                last == FindIn(s, i + 1, lim, NameStop) - 1
                semi == last + 1 <= Len(s) /\ s[last + 1] = ";"
                end == IF semi THEN last + 1 ELSE last
            IN  IF last <= i THEN [i |-> i + 1, out |-> Append(st.out, "&")]
                ELSE [i |-> end + 1,
                      out |-> st.out \o ReplaceCharref(SubSeq(s, i + 1, end))]

RECURSIVE UnescapeRun(_, _, _)
UnescapeRun(s, st, n) ==
    IF n <= 0 THEN st
    ELSE IF n = 1 THEN UnescapeStep(s, st)
    ELSE LET half == UnescapeRun(s, st, n \div 2)
         IN  IF half.i > Len(s) THEN half ELSE UnescapeRun(s, half, n - (n \div 2))

Unescape(s) == UnescapeRun(s, ScanStart, Len(s)).out

-----------------------------------------------------------------------------
(* clean_text *)

\* re.sub(r'<[^>]+>', '', text): at a '<' the match runs to the next '>',
\* which must not follow immediately.
StripTagsStep(s, st) ==
    LET i == st.i
    IN  IF i > Len(s) THEN st
        ELSE IF s[i] = "<"
            THEN LET close == FindFrom(s, i + 1, {">"})
                 IN  IF close <= Len(s) /\ close > i + 1
                     THEN [i |-> close + 1, out |-> st.out]
                     ELSE [i |-> i + 1, out |-> Append(st.out, s[i])]
        ELSE [i |-> i + 1, out |-> Append(st.out, s[i])]

RECURSIVE StripTagsRun(_, _, _)
StripTagsRun(s, st, n) ==
    IF n <= 0 THEN st
    ELSE IF n = 1 THEN StripTagsStep(s, st)
    ELSE LET half == StripTagsRun(s, st, n \div 2)
         IN  IF half.i > Len(s) THEN half ELSE StripTagsRun(s, half, n - (n \div 2))

StripTags(s) == StripTagsRun(s, ScanStart, Len(s)).out

\* re.sub(r'&lt;[^&]*&gt;', '', text): applied after unescaping, so it
\* matches the literal text '&lt;' ... '&gt;' that is still there.
StripEscapedTagsStep(s, st) ==
    LET i == st.i
    IN  IF i > Len(s) THEN st
        ELSE IF StartsWithAt(s, i, <<"&","l","t",";">>)
            THEN LET amp == FindFrom(s, i + 4, {"&"})
                 IN  IF StartsWithAt(s, amp, <<"&","g","t",";">>)
                     THEN [i |-> amp + 4, out |-> st.out]
                     ELSE [i |-> i + 1, out |-> Append(st.out, s[i])]
        ELSE [i |-> i + 1, out |-> Append(st.out, s[i])]

RECURSIVE StripEscapedTagsRun(_, _, _)
StripEscapedTagsRun(s, st, n) ==
    IF n <= 0 THEN st
    ELSE IF n = 1 THEN StripEscapedTagsStep(s, st)
    ELSE LET half == StripEscapedTagsRun(s, st, n \div 2)
         IN  IF half.i > Len(s) THEN half ELSE StripEscapedTagsRun(s, half, n - (n \div 2))

StripEscapedTags(s) == StripEscapedTagsRun(s, ScanStart, Len(s)).out

\* re.sub(r'\s+', ' ', text): the first character of a whitespace run becomes
\* one space, the others are dropped.
CollapseWhitespace(s) ==
    LET kept == SelectSeq([j \in 1..Len(s) |-> j],
                          LAMBDA j : ~(s[j] \in Whitespace /\ j > 1 /\ s[j - 1] \in Whitespace))
    IN  [m \in 1..Len(kept) |-> IF s[kept[m]] \in Whitespace THEN " " ELSE s[kept[m]]]

\* str.strip()
Strip(s) ==
    LET other == CharsOf(s) \ Whitespace
    IN  SubSeq(s, FindIn(s, 1, Len(s), other), FindLastIn(s, 1, Len(s), other))

\* Mutant of CleanStr: the tags are removed before the entities are decoded.
CleanStr_TagsFirst(s) ==
    Strip(CollapseWhitespace(StripEscapedTags(Unescape(StripTags(s)))))

\* clean_text on the text of a string: entities, tags, escaped tags, whitespace.
CleanStr(s) ==
    Strip(CollapseWhitespace(StripEscapedTags(StripTags(Unescape(s)))))

\* clean_text(text) for a JSON value: falsy values give "".
clean_text(x) == IF ~Truthy(x) THEN <<>> ELSE CleanStr(x.v)

-----------------------------------------------------------------------------
(* datetime *)

IsLeap(y) == (y % 4 = 0) /\ ((y % 100 /= 0) \/ (y % 400 = 0))

DaysInMonth(y, m) ==
    IF m = 2 THEN (IF IsLeap(y) THEN 29 ELSE 28)
    ELSE IF m \in {4, 6, 9, 11} THEN 30 ELSE 31

\* datetime(year, month, day): the arguments are JSON values; anything but
\* integers naming a calendar date of the years 1..9999 raises.
datetime(y, m, d) ==
    IF /\ y.k = "num" /\ m.k = "num" /\ d.k = "num"
       /\ y.v \in 1..9999 /\ m.v \in 1..12
       /\ d.v >= 1 /\ d.v <= DaysInMonth(y.v, m.v)
    THEN [ok |-> TRUE, year |-> y.v, month |-> m.v, day |-> d.v]
    ELSE [ok |-> FALSE]

\* datetime.min, the sort key of a record without a date.
datetime_min == [ok |-> TRUE, year |-> 1, month |-> 1, day |-> 1]

RECURSIVE DaysBeforeMonth(_, _)
DaysBeforeMonth(y, m) ==
    IF m <= 1 THEN 0 ELSE DaysBeforeMonth(y, m - 1) + DaysInMonth(y, m - 1)

\* datetime.toordinal(): 1 for 0001-01-01; datetimes compare as their ordinals
\* (every datetime built here is at midnight).
ToOrdinal(dt) ==
    LET y == dt.year - 1
    IN  y * 365 + (y \div 4) - (y \div 100) + (y \div 400)
          + DaysBeforeMonth(dt.year, dt.month) + dt.day

\* strftime('%a, %d %b %Y %H:%M:%S +0000'): the fields the format prints,
\* wday 0 = Mon .. 6 = Sun.
strftime(dt) ==
    [wday |-> (ToOrdinal(dt) + 6) % 7, day |-> dt.day, month |-> dt.month,
     year |-> dt.year, hms |-> <<0, 0, 0>>]

\* Mutant of DateOfParts: a year-month date loses its month.
DateOfParts_MonthDropped(date_parts) ==
    IF date_parts.k /= "list" THEN [ok |-> FALSE]
    ELSE LET p == date_parts.v
         IN  IF Len(p) >= 3 THEN datetime(p[1], p[2], p[3])
             ELSE IF Len(p) >= 1 THEN datetime(p[1], Num(1), Num(1))
             ELSE [ok |-> FALSE]

\* The if/elif/else on len(date_parts), shared by add_article_to_feed and
\* get_pub_date: [ok |-> FALSE] stands for any exception raised on the way
\* (len() of a value that has none, IndexError, datetime's TypeError or
\* ValueError).
DateOfParts(date_parts) ==
    IF date_parts.k /= "list" THEN [ok |-> FALSE]
    ELSE LET p == date_parts.v
         IN  IF Len(p) >= 3 THEN datetime(p[1], p[2], p[3])
             ELSE IF Len(p) >= 2 THEN datetime(p[1], p[2], Num(1))
             ELSE IF Len(p) >= 1 THEN datetime(p[1], Num(1), Num(1))
             ELSE [ok |-> FALSE]

\* pub_date['date-parts'][0] followed by the date construction.
DateOfPublished(pub_date) ==
    LET dp == pub_date.v.date_parts
    IN  IF dp.k /= "list" \/ dp.v = <<>> THEN [ok |-> FALSE]
        ELSE DateOfParts(dp.v[1])

-----------------------------------------------------------------------------
(* add_article_to_feed *)

ABSTRACT_MAX == 500
ABSTRACT_MIN == 10
MAX_AUTHORS == 3
MAX_CATEGORIES == 3

Elem(tag, text) == [tag |-> tag, text |-> text, attrib |-> {}]

\* lines 193-201
ItemTitle(a) ==
    LET t0 == Get(a.title, List(<<Str(UNTITLED)>>))
        article_title ==
            IF t0.k = "list"
            THEN (IF t0.v /= <<>> THEN t0.v[1] ELSE Str(UNTITLED))
            ELSE t0
    IN  <<Elem("title", clean_text(article_title))>>

\* Mutant of ItemLink: link and guid are written whether or not there is a DOI.
ItemLink_NoDoiCheck(a) ==
    LET doi == IF a.DOI.k = "str" THEN a.DOI.v ELSE <<>>
    IN  <<Elem("link", DOI_PREFIX \o doi),
          [tag |-> "guid", text |-> DOI_PREFIX \o doi,
           attrib |-> {<<"isPermaLink", "true">>}]>>

\* lines 203-211
ItemLink(a) ==
    IF Truthy(a.DOI)
    THEN <<Elem("link", DOI_PREFIX \o a.DOI.v),
           [tag |-> "guid", text |-> DOI_PREFIX \o a.DOI.v,
            attrib |-> {<<"isPermaLink", "true">>}]>>
    ELSE <<>>

\* Mutant of AbstractText: the cut is taken on the raw text, before cleaning.
AbstractText_RawCut(a) ==
    IF Truthy(a.abstract)
    THEN LET clean_abstract == clean_text(Str(Take(a.abstract.v, ABSTRACT_MAX)))
         IN  IF clean_abstract /= <<>> /\ Len(Strip(clean_abstract)) > ABSTRACT_MIN
             THEN (IF Len(a.abstract.v) > ABSTRACT_MAX
                   THEN clean_abstract \o ELLIPSIS
                   ELSE clean_abstract)
             ELSE <<>>
    ELSE <<>>

\* lines 217-222
AbstractText(a) ==
    IF Truthy(a.abstract)
    THEN LET clean_abstract == clean_text(a.abstract)
         IN  IF clean_abstract /= <<>> /\ Len(Strip(clean_abstract)) > ABSTRACT_MIN
             THEN (IF Len(clean_abstract) > ABSTRACT_MAX
                   THEN Take(clean_abstract, ABSTRACT_MAX) \o ELLIPSIS
                   ELSE clean_abstract)
             ELSE <<>>
    ELSE <<>>

\* lines 230-240: the name of one author, <<>> when both parts clean to "".
AuthorName(author) ==
    LET given == clean_text(Get(author.v.given, Str(<<>>)))
        family == clean_text(Get(author.v.family, Str(<<>>)))
    IN  IF given /= <<>> /\ family /= <<>> THEN given \o <<" ">> \o family
        ELSE IF given /= <<>> THEN given
        ELSE family

SelectNonEmpty(names) == SelectSeq(names, LAMBDA n : n /= <<>>)

RECURSIVE Join(_, _)
Join(names, sep) ==
    IF names = <<>> THEN <<>>
    ELSE IF Len(names) = 1 THEN names[1]
    ELSE names[1] \o sep \o Join(Tail(names), sep)

\* Mutant of AuthorsText: 'et al.' already with exactly MAX_AUTHORS authors.
AuthorsText_EtAlOffByOne(a) ==
    LET authors == Get(a.author, List(<<>>))
    IN  IF ~Truthy(authors) THEN <<>>
        ELSE LET first == Take(authors.v, MAX_AUTHORS)
                 author_names ==
                     SelectNonEmpty([i \in 1..Len(first) |-> AuthorName(first[i])])
             IN  IF author_names = <<>> THEN <<>>
                 ELSE AUTHORS_PREFIX \o Join(author_names, COMMA_SP)
                        \o (IF Len(authors.v) >= MAX_AUTHORS THEN ET_AL ELSE <<>>)

\* lines 225-246
AuthorsText(a) ==
    LET authors == Get(a.author, List(<<>>))
    IN  IF ~Truthy(authors) THEN <<>>
        ELSE LET first == Take(authors.v, MAX_AUTHORS)
                 author_names ==
                     SelectNonEmpty([i \in 1..Len(first) |-> AuthorName(first[i])])
             IN  IF author_names = <<>> THEN <<>>
                 ELSE AUTHORS_PREFIX \o Join(author_names, COMMA_SP)
                        \o (IF Len(authors.v) > MAX_AUTHORS THEN ET_AL ELSE <<>>)

\* Mutant of ItemDescription: no literal fallback.
ItemDescription_NoFallback(a) ==
    LET abstract_text == AbstractText(a)
    IN  <<Elem("description",
               IF abstract_text /= <<>> THEN abstract_text ELSE AuthorsText(a))>>

\* lines 213-249
ItemDescription(a) ==
    LET abstract_text == AbstractText(a)
        description_text ==
            IF abstract_text /= <<>> THEN abstract_text ELSE AuthorsText(a)
    IN  <<Elem("description",
               IF description_text /= <<>> THEN description_text ELSE NO_DESCRIPTION)>>

\* lines 251-266
ItemPubDate(a) ==
    LET pub_date == a.published
    IN  IF Truthy(pub_date) /\ pub_date.v.date_parts.k /= "absent"
        THEN LET pub_datetime == DateOfPublished(pub_date)
             IN  IF pub_datetime.ok
                 THEN <<Elem("pubDate", strftime(pub_datetime))>>
                 ELSE <<>>
        ELSE <<>>

\* lines 268-270
ItemSource(fc) ==
    <<Elem("source", clean_text(Get(fc.name, Str(UNKNOWN_JOURNAL))))>>

\* lines 272-277
ItemCategories(fc) ==
    LET subjects == Get(fc.subjects, List(<<>>))
        first == Take(subjects.v, MAX_CATEGORIES)
        kept == SelectSeq(first, LAMBDA s : Truthy(s) /\ Strip(s.v) /= <<>>)
    IN  [i \in 1..Len(kept) |-> Elem("category", clean_text(kept[i]))]

\* The children of the <item> element, in document order.
add_article_to_feed(a, fc) ==
    ItemTitle(a) \o ItemLink(a) \o ItemDescription(a) \o ItemPubDate(a)
      \o ItemSource(fc) \o ItemCategories(fc)

-----------------------------------------------------------------------------
(* create_rss_feed *)

\* datetime.now(): the day the request is served.
NOW == [ok |-> TRUE, year |-> 2026, month |-> 11, day |-> 6]

\* datetime.max, the last date a datetime can hold.
DATETIME_MAX == [ok |-> TRUE, year |-> 9999, month |-> 12, day |-> 31]

DigitChars == <<"0","1","2","3","4","5","6","7","8","9">>

\* str(n) for n >= 0, as in an f-string.
RECURSIVE Decimal(_)
Decimal(n) ==
    IF n < 10 THEN <<DigitChars[n + 1]>>
    ELSE Decimal(n \div 10) \o <<DigitChars[(n % 10) + 1]>>

\* lines 138-164: the children of <channel> that precede the items.
ChannelInfo(fc) ==
    <<Elem("title", clean_text(Get(fc.feed_title,
              Str(<<"A","c","a","d","e","m","i","c"," ","A","r","t","i","c","l","e","s">>)))),
      Elem("description", clean_text(Get(fc.feed_description,
              Str(<<"L","a","t","e","s","t"," ","a","c","a","d","e","m","i","c"," ","a","r","t","i","c","l","e","s">>)))),
      Elem("link", <<"h","t","t","p",":","/","/","l","o","c","a","l","h","o","s","t",":","8","0","0","0">>),
      [tag |-> "atom:link", text |-> <<>>,
       attrib |-> {<<"href", "http://localhost:8000">>, <<"rel", "self">>,
                   <<"type", "application/rss+xml">>}],
      Elem("language", <<"e","n","-","u","s">>),
      Elem("lastBuildDate", strftime(NOW))>>
    \o (IF Truthy(fc.publisher)
        THEN <<Elem("managingEditor",
                    <<"e","d","i","t","o","r","@","e","x","a","m","p","l","e",".","c","o","m"," ","(">>
                      \o clean_text(fc.publisher) \o <<")">>)>>
        ELSE <<>>)

\* lines 130-168: the document, one item per article, in the order given.
create_rss_feed(articles, fc) ==
    [channel |-> ChannelInfo(fc),
     items |-> [i \in 1..Len(articles) |-> add_article_to_feed(articles[i], fc)]]

-----------------------------------------------------------------------------
(* MinimalCrossrefClient.get_recent_articles_by_issn *)

\* What the remote service does with one request.  "items" carries the list
\* of message.items; the other kinds are the failures and the bodies without
\* a usable list.
RemoteFailures ==
    {"URLError", "timeout", "HTTPError", "bad_json", "not_object",
     "message_null", "items_null"}
RemoteEmpty == {"no_message", "no_items"}

\* line 31: datetime.now() - timedelta(days=days_back) raises OverflowError
\* when the date leaves datetime.min .. datetime.max.
FromDateInRange(days) ==
    LET o == ToOrdinal(NOW) - days
    IN  o >= 1 /\ o <= ToOrdinal(DATETIME_MAX)

\* lines 29-60.  The date arithmetic of line 31 is outside the try block.
get_recent_articles_by_issn(issn, days, limit, remote) ==
    IF ~FromDateInRange(days) THEN [kind |-> "raise", exc |-> "OverflowError"]
    ELSE IF remote.kind = "items" THEN [kind |-> "return", v |-> remote.v]
    ELSE [kind |-> "return", v |-> <<>>]

-----------------------------------------------------------------------------
(* generate_combined_feed *)

IsDict(a) == "title" \in DOMAIN a

\* line 306: article['_journal_info'] = journal_config
Attach(a, jc) ==
    [f \in DOMAIN a \cup {"_journal_info"} |->
        IF f = "_journal_info" THEN jc ELSE a[f]]

\* lines 298-312, one pass of the loop: what is appended to all_articles and
\* whether the body raised (the except clause swallows it).  result is what
\* the client call gave, [kind |-> "none"] when the call was not reached.
LoopBody(jc, result) ==
    IF jc.issn.k = "absent" THEN [add |-> <<>>, raised |-> TRUE]
    ELSE IF result.kind = "raise" THEN [add |-> <<>>, raised |-> TRUE]
    ELSE IF \E i \in 1..Len(result.v) : ~IsDict(result.v[i])
        THEN [add |-> <<>>, raised |-> TRUE]
    ELSE [add |-> [i \in 1..Len(result.v) |-> Attach(result.v[i], jc)],
          raised |-> jc.name.k = "absent"]

\* lines 315-328: the sort key; 'date-parts' in None raises TypeError.
get_pub_date(a) ==
    LET pub_date == Get(a.published, Obj([date_parts |-> Absent]))
    IN  IF pub_date.k /= "obj" THEN [ok |-> FALSE]
        ELSE IF pub_date.v.date_parts.k /= "absent" /\ Truthy(pub_date.v.date_parts)
            THEN LET dt == DateOfPublished(pub_date)
                 IN  IF dt.ok THEN dt ELSE datetime_min
        ELSE datetime_min

\* list.sort(key=get_pub_date, reverse=True): stable, so a record goes after
\* every record already placed whose key is not smaller.
RECURSIVE InsertByDate(_, _)
InsertByDate(sorted, a) ==
    IF sorted = <<>> THEN <<a>>
    ELSE IF ToOrdinal(get_pub_date(Head(sorted))) >= ToOrdinal(get_pub_date(a))
        THEN <<Head(sorted)>> \o InsertByDate(Tail(sorted), a)
    ELSE <<a>> \o sorted

RECURSIVE SortByPubDate(_)
SortByPubDate(as) ==
    IF as = <<>> THEN <<>>
    ELSE InsertByDate(SortByPubDate(SubSeq(as, 1, Len(as) - 1)), as[Len(as)])

\* lines 333-337
combined_config(n) ==
    [feed_title |-> Str(<<"L","a","t","e","s","t"," ","A","c","a","d","e","m","i","c"," ","A","r","t","i","c","l","e","s"," ","-"," ","C","o","m","b","i","n","e","d"," ","F","e","e","d">>),
     feed_description |-> Str(<<"C","o","m","b","i","n","e","d"," ","f","e","e","d"," ","f","r","o","m"," ">>
                                \o Decimal(n)
                                \o <<" ","a","c","a","d","e","m","i","c"," ","j","o","u","r","n","a","l","s">>),
     name |-> Str(COMBINED_FEED),
     issn |-> Absent, publisher |-> Absent, subjects |-> Absent]

\* lines 314-340: sort and assemble; a key that raises ends the call.
FinishFeed(as, n) ==
    IF \E i \in 1..Len(as) : ~get_pub_date(as[i]).ok
    THEN [kind |-> "raise", exc |-> "TypeError"]
    ELSE LET sorted == SortByPubDate(as)
         IN  [kind |-> "return", sorted |-> sorted,
              v |-> create_rss_feed(sorted, combined_config(n))]

-----------------------------------------------------------------------------
(* FixedHTTPRequestHandler.serve_combined_rss *)

DigitValue(c) ==
    CASE c = "0" -> 0 [] c = "1" -> 1 [] c = "2" -> 2 [] c = "3" -> 3
      [] c = "4" -> 4 [] c = "5" -> 5 [] c = "6" -> 6 [] c = "7" -> 7
      [] c = "8" -> 8 [] c = "9" -> 9

RECURSIVE DigitsValue(_)
DigitsValue(ds) ==
    IF ds = <<>> THEN 0
    ELSE DigitsValue(SubSeq(ds, 1, Len(ds) - 1)) * 10 + DigitValue(ds[Len(ds)])

\* int(text): surrounding whitespace, an optional sign, decimal digits;
\* anything else raises ValueError.
int(text) ==
    LET t == Strip(text)
        signed == t /= <<>> /\ t[1] \in {"+", "-"}
        ds == IF signed THEN Tail(t) ELSE t
    IN  IF ds /= <<>> /\ \A j \in 1..Len(ds) : ds[j] \in CharsOf(DigitChars)
        THEN [ok |-> TRUE,
              v |-> IF signed /\ t[1] = "-" THEN 0 - DigitsValue(ds) ELSE DigitsValue(ds)]
        ELSE [ok |-> FALSE]

Max(a, b) == IF a >= b THEN a ELSE b

\* Mutant of CombinedParams: the quotient is used as it is, without the floor
\* of line 467.
CombinedParams_NoFloor(q_days, q_max, n) ==
    LET days == int(Get(q_days, Str(<<"7">>)).v)
        max == int(Get(q_max, Str(<<"2","0">>)).v)
    IN  IF days.ok /\ max.ok
        THEN [ok |-> TRUE, days |-> days.v,
              max_per_journal |-> max.v \div Max(1, n)]
        ELSE [ok |-> FALSE]

\* lines 465-467: [ok |-> FALSE] when either int() raises.
CombinedParams(q_days, q_max, n) ==
    LET days == int(Get(q_days, Str(<<"7">>)).v)
        max == int(Get(q_max, Str(<<"2","0">>)).v)
    IN  IF days.ok /\ max.ok
        THEN [ok |-> TRUE, days |-> days.v,
              max_per_journal |-> Max(1, max.v \div Max(1, n))]
        ELSE [ok |-> FALSE]

\* rss_web_server.py, lines 129-130 and 139: the arguments combined_feed
\* passes to generate_combined_feed; [ok |-> FALSE] when either int() raises.
combined_feed(q_days, q_max) ==
    LET days == int(Get(q_days, Str(<<"7">>)).v)
        max == int(Get(q_max, Str(<<"2","0">>)).v)
    IN  IF days.ok /\ max.ok
        THEN [ok |-> TRUE, days |-> days.v,
              max_per_journal |-> Max(1, max.v \div 4)]
        ELSE [ok |-> FALSE]

-----------------------------------------------------------------------------
(* load_journals_config and find_journal_by_identifier *)

\* Mutant of load_journals_config: a file that cannot be loaded gives a
\* registry of one placeholder journal.
load_journals_config_Placeholder(file) ==
    IF file.kind = "json" /\ file.v.k = "list" THEN file.v.v
    ELSE <<[issn |-> Str(<<"0","0","0","0","-","0","0","0","0">>), name |-> Str(<<>>),
            subjects |-> Absent, feed_title |-> Absent, feed_description |-> Absent,
            publisher |-> Absent]>>

\* lines 70-83: the registry is the parsed file when it holds a JSON array;
\* a missing file, a file that does not parse and a value len() rejects all
\* end in one of the except clauses, which return [].
load_journals_config(file) ==
    IF file.kind = "json" /\ file.v.k = "list" THEN file.v.v ELSE <<>>

LowerChar(c) ==
    CASE c = "A" -> "a" [] c = "B" -> "b" [] c = "C" -> "c" [] c = "D" -> "d"
      [] c = "E" -> "e" [] c = "F" -> "f" [] c = "G" -> "g" [] c = "H" -> "h"
      [] c = "I" -> "i" [] c = "J" -> "j" [] c = "K" -> "k" [] c = "L" -> "l"
      [] c = "M" -> "m" [] c = "N" -> "n" [] c = "O" -> "o" [] c = "P" -> "p"
      [] c = "Q" -> "q" [] c = "R" -> "r" [] c = "S" -> "s" [] c = "T" -> "t"
      [] c = "U" -> "u" [] c = "V" -> "v" [] c = "W" -> "w" [] c = "X" -> "x"
      [] c = "Y" -> "y" [] c = "Z" -> "z" [] OTHER -> c

\* str.lower()
Lower(s) == [j \in 1..Len(s) |-> LowerChar(s[j])]

\* str.replace(old, new) for a non-empty old: leftmost matches, no overlap.
RECURSIVE Replace(_, _, _)
Replace(s, old, new) ==
    IF Len(s) < Len(old) THEN s
    ELSE IF StartsWithAt(s, 1, old) THEN new \o Replace(Drop(s, Len(old)), old, new)
    ELSE <<s[1]>> \o Replace(Tail(s), old, new)

\* line 124: journal.get('name', '').lower().replace(' ', '_').replace('&', 'and')
NormalizedName(journal) ==
    Replace(Replace(Lower(Get(journal.name, Str(<<>>)).v), <<" ">>, <<"_">>),
            <<"&">>, <<"a","n","d">>)

\* Mutant of Matches: the identifier is compared as it was given.
Matches_CaseSensitive(journal, identifier) ==
    \/ journal.issn = Str(identifier)
    \/ NormalizedName(journal) = identifier

\* lines 118-126, the test made on one journal: its ISSN, or else its name.
Matches(journal, identifier) ==
    \/ journal.issn = Str(identifier)
    \/ NormalizedName(journal) = Lower(identifier)

\* lines 116-128: the index of the first journal that passes the test, 0 for
\* None.
find_journal_by_identifier(config, identifier) ==
    LET hits == {j \in 1..Len(config) : Matches(config[j], identifier)}
    IN  IF hits = {} THEN 0 ELSE CHOOSE j \in hits : \A h \in hits : j <= h

-----------------------------------------------------------------------------
(* generate_journal_feed and serve_journal_rss *)

\* lines 279-289: journal_config['issn'] and ['name'] raise KeyError when the
\* key is missing; the client call may raise; an entry of the result that is
\* not an object makes article.get raise in add_article_to_feed.
generate_journal_feed(jc, days, max_articles, remote) ==
    IF jc.issn.k = "absent" \/ jc.name.k = "absent"
    THEN [kind |-> "raise", exc |-> "KeyError", called |-> FALSE]
    ELSE LET result == get_recent_articles_by_issn(jc.issn, days, max_articles, remote)
         IN  IF result.kind = "raise"
             THEN [kind |-> "raise", exc |-> result.exc, called |-> TRUE, result |-> result]
             ELSE IF \E i \in 1..Len(result.v) : ~IsDict(result.v[i])
                 THEN [kind |-> "raise", exc |-> "AttributeError", called |-> TRUE,
                       result |-> result]
             ELSE [kind |-> "return", v |-> create_rss_feed(result.v, jc),
                   called |-> TRUE, result |-> result]

\* The record serve_journal_rss and generate_combined_feed leave of a client
\* call.
CallRecord(j, days, limit, remote, result, raised) ==
    [journal |-> j, days_back |-> days, limit |-> limit, remote |-> remote.kind,
     result |-> result, raised |-> raised]

\* lines 497-510: what serve_journal_rss answers once generate_journal_feed
\* has returned or raised (r).
FeedAnswer(j, days, max_articles, remote, r) ==
    [found |-> j,
     calls |-> IF r.called
               THEN <<CallRecord(j, days, max_articles, remote, r.result, r.kind = "raise")>>
               ELSE <<>>,
     response |-> IF r.kind = "return" THEN [status |-> 200, body |-> r.v]
                  ELSE [status |-> 500]]

\* lines 483-510: the lookup comes first and answers 404; then the two int()
\* calls, whose ValueError is answered 500 like every other exception.
serve_journal_rss(config, identifier, q_days, q_max, remote) ==
    LET j == find_journal_by_identifier(config, identifier)
        days == int(Get(q_days, Str(<<"7">>)).v)
        max_articles == int(Get(q_max, Str(<<"2","0">>)).v)
    IN  IF j = 0 THEN [found |-> 0, calls |-> <<>>, response |-> [status |-> 404]]
        ELSE IF ~days.ok \/ ~max_articles.ok
            THEN [found |-> j, calls |-> <<>>, response |-> [status |-> 500]]
        ELSE FeedAnswer(j, days.v, max_articles.v, remote,
                 generate_journal_feed(config[j], days.v, max_articles.v, remote))

-----------------------------------------------------------------------------
(* serve_index and do_GET *)

\* html.escape(text, quote=False)
RECURSIVE Escape(_)
Escape(s) ==
    IF s = <<>> THEN <<>>
    ELSE (CASE s[1] = "&" -> <<"&","a","m","p",";">>
            [] s[1] = "<" -> <<"&","l","t",";">>
            [] s[1] = ">" -> <<"&","g","t",";">>
            [] OTHER -> <<s[1]>>) \o Escape(Tail(s))

\* lines 106-114
clean_html_text(x) == IF ~Truthy(x) THEN <<>> ELSE Escape(Unescape(x.v))

\* lines 378-381: what the page shows of one journal.
IndexEntry(journal) ==
    LET name == clean_html_text(journal.name)
    IN  [issn |-> journal.issn.v,
         name |-> name,
         description |-> clean_html_text(Get(journal.feed_description,
             Str(<<"L","a","t","e","s","t"," ","a","r","t","i","c","l","e","s"," ","f","r","o","m"," ">>
                 \o name))),
         publisher |-> clean_html_text(Get(journal.publisher, Str(<<>>)))]

\* lines 371-460: journal['issn'] and journal['name'] raise KeyError when the
\* key is missing, and nothing in serve_index or do_GET catches it.
serve_index(config) ==
    IF \E j \in 1..Len(config) : config[j].issn.k = "absent" \/ config[j].name.k = "absent"
    THEN [kind |-> "raise", exc |-> "KeyError"]
    ELSE [kind |-> "return", v |-> [j \in 1..Len(config) |-> IndexEntry(config[j])]]

P_Root == <<"/">>
P_Combined == <<"/","r","s","s","/","c","o","m","b","i","n","e","d">>
P_Journal == <<"/","r","s","s","/","j","o","u","r","n","a","l","/">>
P_Legacy == <<"/","r","s","s","/">>

\* lines 353-369: the handler do_GET chooses for a path, and the identifier
\* it passes on.
Route(path) ==
    IF path = P_Root THEN [handler |-> "index"]
    ELSE IF path = P_Combined THEN [handler |-> "combined"]
    ELSE IF StartsWithAt(path, 1, P_Journal)
        THEN [handler |-> "journal", identifier |-> Replace(path, P_Journal, <<>>)]
    ELSE IF StartsWithAt(path, 1, P_Legacy)
        THEN [handler |-> "journal", identifier |-> Replace(path, P_Legacy, <<>>)]
    ELSE [handler |-> "not_found"]

-----------------------------------------------------------------------------
(* create_rss_feed, lines 170-187: serialization and pretty-printing *)

\* Control characters, each one character of a text: backspace, escape and
\* NUL.  XML 1.0 allows none of them in a document, escaped or not.
CHAR_BS == "U+0008"
CHAR_ESC == "U+001B"
CHAR_NUL == "U+0000"
XmlInvalidChars == {CHAR_BS, CHAR_ESC, CHAR_NUL}

DECL_ElementTree == "<?xml version='1.0' encoding='utf-8'?>"
DECL_Minidom == "<?xml version=\"1.0\" encoding=\"utf-8\"?>"

\* ElementTree writes the text of an element through _escape_cdata.
escape_cdata(text) ==
    Replace(Replace(Replace(text, <<"&">>, <<"&","a","m","p",";">>),
                    <<"<">>, <<"&","l","t",";">>),
            <<">">>, <<"&","g","t",";">>)

\* The elements whose text is a date written by strftime, which is kept as
\* the date it shows: letters, digits, ',', ':', '+' and spaces.
DateTags == {"pubDate", "lastBuildDate"}

\* The element as it is written: the qualified name of the Atom link gets
\* the generated prefix ns0.
WriteElem(e, text) ==
    [tag |-> IF e.tag = "atom:link" THEN "ns0:link" ELSE e.tag,
     text |-> IF e.tag \in DateTags THEN e.text ELSE text,
     attrib |-> e.attrib]

\* The text of an element put through ElementTree's escaping.
WriteRough(e) == WriteElem(e, IF e.tag \in DateTags THEN <<>> ELSE escape_cdata(e.text))

\* line 171: ET.tostring(rss, encoding='utf-8', xml_declaration=True).  The
\* serialization is kept as its declaration and, element by element, the
\* character data written between the tags.
tostring(rss) ==
    [declaration |-> DECL_ElementTree,
     pretty |-> FALSE,
     channel |-> [i \in 1..Len(rss.channel) |-> WriteRough(rss.channel[i])],
     items |-> [i \in 1..Len(rss.items) |->
                  [j \in 1..Len(rss.items[i]) |-> WriteRough(rss.items[i][j])]]]

\* The text nodes of a serialization, the dates apart.
ElementsOf(xml) ==
    {xml.channel[i] : i \in 1..Len(xml.channel)}
    \cup UNION {{xml.items[i][j] : j \in 1..Len(xml.items[i])} : i \in 1..Len(xml.items)}

TextNodes(xml) == {e.text : e \in {x \in ElementsOf(xml) : x.tag \notin DateTags}}

\* Character data expat accepts: no character outside the Char production,
\* no '<', and '&' only as the start of a reference.
IsReferenceAt(s, i) ==
    \/ StartsWithAt(s, i, <<"&","a","m","p",";">>)
    \/ StartsWithAt(s, i, <<"&","l","t",";">>)
    \/ StartsWithAt(s, i, <<"&","g","t",";">>)
    \/ StartsWithAt(s, i, <<"&","q","u","o","t",";">>)

WellFormedText(s) ==
    \A i \in 1..Len(s) :
        /\ s[i] \notin XmlInvalidChars
        /\ s[i] /= "<"
        /\ s[i] = "&" => IsReferenceAt(s, i)

\* The character data of a text node as the parser reports it.
ParsedText(s) ==
    Replace(Replace(Replace(Replace(s, <<"&","l","t",";">>, <<"<">>),
                            <<"&","g","t",";">>, <<">">>),
                    <<"&","q","u","o","t",";">>, <<"\"">>),
            <<"&","a","m","p",";">>, <<"&">>)

ReadElem(e) == WriteElem(e, IF e.tag \in DateTags THEN <<>> ELSE ParsedText(e.text))

\* line 175: minidom.parseString(rough_string): the tree again, or ExpatError.
parseString(xml) ==
    IF \A s \in TextNodes(xml) : WellFormedText(s)
    THEN [kind |-> "return",
          v |-> [channel |-> [i \in 1..Len(xml.channel) |-> ReadElem(xml.channel[i])],
                 items |-> [i \in 1..Len(xml.items) |->
                              [j \in 1..Len(xml.items[i]) |-> ReadElem(xml.items[i][j])]]]]
    ELSE [kind |-> "raise", exc |-> "ExpatError"]

\* minidom writes character data through _write_data.
write_data(text) ==
    Replace(Replace(Replace(Replace(text, <<"&">>, <<"&","a","m","p",";">>),
                            <<"<">>, <<"&","l","t",";">>),
                    <<"\"">>, <<"&","q","u","o","t",";">>),
            <<">">>, <<"&","g","t",";">>)

WritePretty(e) == WriteElem(e, IF e.tag \in DateTags THEN <<>> ELSE write_data(e.text))

\* line 176: reparsed.toprettyxml(indent="  ", encoding='utf-8')
toprettyxml(dom) ==
    [declaration |-> DECL_Minidom,
     pretty |-> TRUE,
     channel |-> [i \in 1..Len(dom.channel) |-> WritePretty(dom.channel[i])],
     items |-> [i \in 1..Len(dom.items) |->
                  [j \in 1..Len(dom.items[i]) |-> WritePretty(dom.items[i][j])]]]

\* Mutant of PrettyOrRough: a failure of the pretty-printing is not caught.
PrettyOrRough_NoFallback(rough_string) ==
    LET reparsed == parseString(rough_string)
    IN  IF reparsed.kind = "return"
        THEN [kind |-> "return", v |-> toprettyxml(reparsed.v)]
        ELSE reparsed

\* lines 174-187: the pretty-printed document, or rough_string when parsing
\* it raises.
PrettyOrRough(rough_string) ==
    LET reparsed == parseString(rough_string)
    IN  IF reparsed.kind = "return"
        THEN [kind |-> "return", v |-> toprettyxml(reparsed.v)]
        ELSE [kind |-> "return", v |-> rough_string]

\* create_rss_feed(articles, feed_config) as its caller sees it: the string
\* returned for the tree of lines 130-168.
FeedDocument(as, fc) == PrettyOrRough(tostring(create_rss_feed(as, fc)))

-----------------------------------------------------------------------------
(* issn_to_rss_config.py: ISSNToRSSConfigGenerator *)

LIT_Journal == <<"J","o","u","r","n","a","l"," ">>
LIT_LatestArticles == <<" ","-"," ","L","a","t","e","s","t"," ","A","r","t","i","c","l","e","s">>
LIT_LatestResearch ==
    <<"L","a","t","e","s","t"," ","r","e","s","e","a","r","c","h"," ","a","r","t","i","c","l","e","s"," ","f","r","o","m"," ">>
LIT_LatestFromIssn ==
    <<"L","a","t","e","s","t"," ","a","r","t","i","c","l","e","s"," ","f","r","o","m"," ","j","o","u","r","n","a","l"," ","w","i","t","h"," ","I","S","S","N"," ">>
LIT_PublishedBy == <<" ","(","P","u","b","l","i","s","h","e","d"," ","b","y"," ">>
LIT_Note == <<"l","o","o","k","u","p"," ","f","a","i","l","e","d">>

\* Mutant of validate_issn_format: the check character is not looked at.
validate_issn_format_AnyCheckChar(issn) ==
    LET s == Strip(issn)
        digits == CharsOf(DigitChars)
    IN  /\ Len(s) = 9
        /\ \A i \in {1, 2, 3, 4, 6, 7, 8} : s[i] \in digits
        /\ s[5] = "-"

\* lines 60-64: re.match(r'^\d{4}-\d{3}[\dX]$', issn.strip()); '$' also
\* matches before a final newline, which strip() has removed.
validate_issn_format(issn) ==
    LET s == Strip(issn)
        digits == CharsOf(DigitChars)
    IN  /\ Len(s) = 9
        /\ \A i \in {1, 2, 3, 4, 6, 7, 8} : s[i] \in digits
        /\ s[5] = "-"
        /\ s[9] \in digits \cup {"X"}

\* lines 37-48, the test made on one stripped line: not blank, not a
\* comment, and of the ISSN format.
KeepsLine(line) ==
    /\ Strip(line) /= <<>>
    /\ Strip(line)[1] /= "#"
    /\ validate_issn_format(Strip(line))

\* lines 30-58: the stripped lines that are kept, in the order of the file.
read_issn_list(lines) ==
    LET kept == SelectSeq(lines, KeepsLine)
    IN  [i \in 1..Len(kept) |-> Strip(kept[i])]

\* lines 66-125: None for a failed request, a body whose status is not 'ok'
\* or whose message is not an object; else the journal info.
get_journal_info_from_crossref(issn, remote) ==
    IF remote.kind /= "ok" THEN [kind |-> "none"]
    ELSE LET titles == remote.title
             title == IF ~Truthy(titles) THEN LIT_Journal \o issn
                      ELSE IF titles.k = "list" THEN titles.v[1].v
                      ELSE titles.v
         IN  [kind |-> "info", issn |-> issn, title |-> title,
              publisher |-> IF Truthy(remote.publisher) THEN remote.publisher ELSE Absent]

\* lines 127-166
create_rss_config_entry(journal_info) ==
    LET issn == journal_info.issn
        title_clean == IF Strip(journal_info.title) = <<>> THEN LIT_Journal \o issn
                       ELSE Strip(journal_info.title)
        publisher == journal_info.publisher
    IN  [name |-> Str(title_clean),
         issn |-> Str(issn),
         feed_title |-> Str(title_clean \o LIT_LatestArticles),
         feed_description |->
             Str(LIT_LatestResearch \o title_clean
                 \o (IF Truthy(publisher) THEN LIT_PublishedBy \o publisher.v \o <<")">>
                     ELSE <<>>)),
         publisher |-> publisher,
         note |-> Absent]

\* lines 196-204: the entry written when the lookup failed.
fallback_entry(issn) ==
    [name |-> Str(LIT_Journal \o issn),
     issn |-> Str(issn),
     feed_title |-> Str(LIT_Journal \o issn \o LIT_LatestArticles),
     feed_description |-> Str(LIT_LatestFromIssn \o issn),
     publisher |-> Absent,
     note |-> Str(LIT_Note)]

\* lines 184-205, one pass of the loop of generate_config: the entry appended.
EntryFor(issn, remote) ==
    LET journal_info == get_journal_info_from_crossref(issn, remote)
    IN  IF journal_info.kind = "info" THEN create_rss_config_entry(journal_info)
        ELSE fallback_entry(issn)

\* lines 261-289: the file is a list whose entries have the four required
\* fields and an ISSN of the right format; any exception gives False.
validate_generated_config(file) ==
    /\ file.kind = "json"
    /\ file.v.k = "list"
    /\ \A i \in 1..Len(file.v.v) :
           LET entry_ == file.v.v[i]
           IN  /\ \A field \in {"name", "issn", "feed_title", "feed_description"} :
                      entry_[field].k /= "absent"
               /\ entry_.issn.k = "str"
               /\ validate_issn_format(entry_.issn.v)

-----------------------------------------------------------------------------
(* Item specification: add_article_to_feed applied to one record *)

MaxAuthors == 4

Rep(c, n) == [j \in 1..n |-> c]

T_Jane == <<"J","a","n","e">>
T_Doe == <<"D","o","e">>
T_Sam == <<"S","a","m">>
T_Lee == <<"L","e","e">>
T_Al == <<"A","l">>
T_X == <<"X">>
T_Q == <<"Q">>
T_Y == <<"Y">>
T_Bo == <<"B","o">>
T_Z == <<"Z">>
T_EmptyTag == <<"<","b",">","<","/","b",">">>
T_OpenP == <<"<","j","a","t","s",":","p",">">>
T_CloseP == <<"<","/","j","a","t","s",":","p",">">>
T_Amp == <<"&","a","m","p",";">>

\* The authors a record can list at each position, by position.
AuthorPool == <<[given |-> T_Jane, family |-> T_Doe],
                [given |-> T_Sam, family |-> T_Lee],
                [given |-> T_Al, family |-> T_X],
                [given |-> T_Q, family |-> T_Y],
                [given |-> T_Bo, family |-> T_Z]>>

AuthorAt(j) == AuthorPool[((j - 1) % Len(AuthorPool)) + 1]

\* The shapes an author entry takes: both parts, one part only (the other
\* missing, null or markup that cleans to nothing), or no usable part.
AuthorKinds == {"both", "given", "family", "none", "markup"}

AuthorOf(j, kind) ==
    CASE kind = "both" ->
           Obj([given |-> Str(AuthorAt(j).given), family |-> Str(AuthorAt(j).family)])
      [] kind = "given" ->
           Obj([given |-> Str(<<" ">> \o AuthorAt(j).given), family |-> Absent])
      [] kind = "family" ->
           Obj([given |-> Null, family |-> Str(AuthorAt(j).family)])
      [] kind = "none" ->
           Obj([given |-> Absent, family |-> Absent])
      [] kind = "markup" ->
           Obj([given |-> Str(T_EmptyTag), family |-> Str(<<>>)])

AuthorLists ==
    {Absent, Null} \cup
    UNION {{List([j \in 1..n |-> AuthorOf(j, ks[j])]) : ks \in [1..n -> AuthorKinds]}
           : n \in 0..MaxAuthors}

\* The author list of the worked example: Jane Doe, Sam Lee, Al X, Q Y.
FourAuthors == List([j \in 1..4 |-> AuthorOf(j, "both")])

\* Abstracts that do not qualify as a description.
PoorAbstracts ==
    {Absent, Null, Str(<<>>), Str(Rep("a", ABSTRACT_MIN)),
     Str(T_OpenP \o Rep("a", ABSTRACT_MIN) \o T_CloseP)}

\* Abstracts around the two thresholds; the tagged and entity-escaped ones
\* have a raw length that differs from their cleaned length.
GoodAbstracts ==
    {Str(Rep("a", ABSTRACT_MIN + 1)),
     Str(<<" ", " ">> \o Rep("a", ABSTRACT_MIN) \o <<" ", "b", "\n">>),
     Str(Rep("x", ABSTRACT_MAX)),
     Str(Rep("x", ABSTRACT_MAX + 1)),
     Str(T_OpenP \o Rep("x", ABSTRACT_MAX - 5) \o T_CloseP),
     Str(T_OpenP \o Rep("x", ABSTRACT_MAX + 1) \o T_CloseP),
     Str(Rep("x", ABSTRACT_MAX - 1) \o T_Amp \o <<"y", "z">>),
     Str(Rep("x", ABSTRACT_MAX - 2) \o Rep(" ", 6) \o <<"y", "z">>)}

Titles ==
    {Absent, Null, List(<<>>), List(<<Str(<<>>)>>),
     List(<<Str(<<"<","i",">","<","/","i",">">>)>>),
     List(<<Str(<<"<","i",">","F","o","o"," ","&","a","m","p",";"," ","B","a","r","<","/","i",">">>)>>),
     List(<<Str(<<"A"," ","T","i","t","l","e">>), Str(<<"S","e","c","o","n","d">>)>>),
     Str(<<"P","l","a","i","n">>)}

DOIs == {Absent, Null, Str(<<>>), Str(<<"1","0",".","1","/","a">>)}

Published(dp) == Obj([date_parts |-> dp])

Years == {0, 1, 2023, 2024, 10000}
Months == {0, 2, 6, 13}
Days == {0, 1, 15, 29, 30, 31}

DateEntries ==
    {List(<<>>), Null, List(<<Null>>), List(<<Num(2024), Null>>)}
    \cup {List(<<Num(y)>>) : y \in Years}
    \cup {List(<<Num(y), Num(m)>>) : y \in Years, m \in Months}
    \cup {List(<<Num(y), Num(m), Num(d)>>) : y \in Years, m \in Months, d \in Days}
    \cup {List(<<Num(2024), Num(6), Num(15), Num(12)>>)}

PublishedValues ==
    {Absent, Null, Published(Absent), Published(Null), Published(List(<<>>))}
    \cup {Published(List(<<e>>)) : e \in DateEntries}
    \cup {Published(List(<<List(<<Num(2024), Num(6)>>), List(<<Num(1999)>>)>>))}

Record(title, doi, abstract, author, published) ==
    [title |-> title, DOI |-> doi, abstract |-> abstract, author |-> author,
     published |-> published]

JournalOf(issn, name, subjects) ==
    [issn |-> issn, name |-> name, subjects |-> subjects,
     feed_title |-> Absent, feed_description |-> Absent, publisher |-> Absent]

T_Nature == <<"N","a","t","u","r","e">>
T_NatureBiotechnology == <<"N","a","t","u","r","e"," ","B","i","o","t","e","c","h","n","o","l","o","g","y">>
T_Cell == <<"C","e","l","l">>
T_CellMarkup == <<"C","e","l","l"," ","&","a","m","p",";"," ","<","i",">","C","o","<","/","i",">">>
T_Biology == <<"B","i","o","l","o","g","y">>
T_LifeSci == <<"L","i","f","e"," ","&","a","m","p",";"," ","S","c","i">>
ISSN_Nature == <<"1","4","7","6","-","4","6","8","7">>
ISSN_NatureBiotechnology == <<"1","0","8","7","-","0","1","5","6">>
ISSN_Cell == <<"0","0","9","2","-","8","6","7","4">>

J_Nature == JournalOf(Str(ISSN_Nature), Str(T_Nature), List(<<Str(T_Biology)>>))
J_NatureBiotechnology ==
    JournalOf(Str(ISSN_NatureBiotechnology), Str(T_NatureBiotechnology),
              List(<<Str(T_Biology), Str(<<" ">>), Str(T_LifeSci), Str(T_Cell)>>))
J_Cell == JournalOf(Str(ISSN_Cell), Str(T_CellMarkup), Absent)
J_NoName == JournalOf(Str(ISSN_Nature), Absent, Absent)
J_NoIssn == JournalOf(Absent, Str(T_Nature), List(<<>>))
\* Five subjects, as issn_to_rss_config.py writes at most (subjects[:5]).
J_FiveSubjects ==
    JournalOf(Str(ISSN_Cell), Str(T_Cell),
              List(<<Str(T_LifeSci), Str(T_Biology), Str(T_Cell), Str(T_Nature), Str(T_X)>>))
\* Subjects that are empty, null, blank and only markup.
J_MarkupSubject ==
    JournalOf(Str(ISSN_Cell), Str(T_Cell),
              List(<<Str(<<>>), Null, Str(T_EmptyTag)>>))
J_BlankSubjects ==
    JournalOf(Str(ISSN_Cell), Str(T_Cell),
              List(<<Str(<<" ", " ">>), Str(<<" ">> \o T_Biology \o <<" ">>), Null, Str(T_Cell)>>))

ItemConfigs ==
    {J_Nature, J_NatureBiotechnology, J_Cell, J_NoName,
     J_FiveSubjects, J_MarkupSubject, J_BlankSubjects}

\* The records the item specification builds items from: every abstract with
\* a few author lists, every author list with the abstracts that fall through
\* to it, and every title, DOI and date.
ItemInputs ==
    {<<Record(Absent, Absent, ab, au, Absent), J_Nature>> :
        ab \in PoorAbstracts \cup GoodAbstracts, au \in {Absent, FourAuthors}}
    \cup {<<Record(Absent, Absent, ab, au, Absent), J_Nature>> :
        ab \in {Absent, Str(Rep("a", ABSTRACT_MIN))}, au \in AuthorLists}
    \cup {<<Record(t, d, Absent, Absent, pd), J_Cell>> :
        t \in Titles, d \in DOIs, pd \in PublishedValues}
    \cup {<<Record(Absent, Str(<<"1","0",".","1","/","a">>), Absent, Absent, Absent), fc>> :
        fc \in ItemConfigs}

\* No server runs in the item and text specifications.
NoRequest == [path |-> <<>>, days |-> Absent, max |-> Absent]
NoResponse == [status |-> 0]
NoDocument == [kind |-> "none"]
NoFile == [kind |-> "missing"]
NoGenerator ==
    /\ issn_file = <<>> /\ issns = <<>> /\ config_entries = <<>> /\ lookups = <<>>
    /\ output_file = NoFile /\ validated = Absent

NoServer ==
    /\ entry = "none" /\ email = Absent /\ stdin = Absent
    /\ config_file = [kind |-> "missing"] /\ served = FALSE
    /\ request = NoRequest /\ journals_config = <<>> /\ journal_config = 0
    /\ days_back = 0 /\ max_per_journal = 0 /\ idx = 0
    /\ all_articles = <<>> /\ calls = <<>> /\ response = NoResponse

InitItem ==
    /\ NoServer
    /\ pc = "item_input"
    /\ \E in \in ItemInputs : article = in[1] /\ feed_config = in[2]
    /\ item = <<>>
    /\ input_text = Null /\ cleaned = <<>>
    /\ feed_articles = <<>> /\ document = NoDocument
    /\ NoGenerator

\* add_article_to_feed(channel, article, feed_config)
BuildItem ==
    /\ pc = "item_input"
    /\ item' = add_article_to_feed(article, feed_config)
    /\ pc' = "item_built"
    /\ UNCHANGED <<procVars, request, journals_config, journal_config, days_back,
                   max_per_journal, idx, all_articles, calls, response,
                   article, feed_config, textVars, feedVars, genVars>>

NextItem == BuildItem

SpecItem == InitItem /\ [][NextItem]_vars

-----------------------------------------------------------------------------
(* Text specification: one call of clean_text *)

\* The pieces the input texts are made of: markup characters, a letter, a
\* space, entities, and entity names without their '&' (which follow
\* '&amp;' in doubly escaped markup).
MaxTokens == 4
Tokens ==
    {<<"<">>, <<">">>, <<"b">>, <<" ">>, <<"&","l","t",";">>, <<"&","g","t",";">>,
     <<"&","a","m","p",";">>, <<"l","t",";">>, <<"g","t",";">>}

RECURSIVE TextsOf(_)
TextsOf(n) ==
    IF n = 0 THEN {<<>>}
    ELSE LET shorter == TextsOf(n - 1)
         IN  shorter \cup {s \o tok : s \in shorter, tok \in Tokens}

T_FooBar == <<"<","i",">","F","o","o"," ","&","a","m","p",";"," ","B","a","r","<","/","i",">">>
T_ATitle == <<"A"," ","&","l","t",";","b","&","g","t",";"," ","T","i","t","l","e"," ","&","l","t",";","/","b","&","g","t",";">>

TextInputs ==
    {Absent, Null, Str(T_FooBar), Str(T_ATitle)} \cup {Str(s) : s \in TextsOf(MaxTokens)}

InitText ==
    /\ NoServer
    /\ pc = "text_input"
    /\ article = Absent /\ feed_config = Absent /\ item = <<>>
    /\ input_text \in TextInputs
    /\ cleaned = <<>>
    /\ feed_articles = <<>> /\ document = NoDocument
    /\ NoGenerator

\* clean_text(text)
CleanText ==
    /\ pc = "text_input"
    /\ cleaned' = clean_text(input_text)
    /\ pc' = "text_cleaned"
    /\ UNCHANGED <<procVars, request, journals_config, journal_config, days_back,
                   max_per_journal, idx, all_articles, calls, response,
                   itemVars, input_text, feedVars, genVars>>

NextText == CleanText

SpecText == InitText /\ [][NextText]_vars

-----------------------------------------------------------------------------
(* Feed specification: one call of create_rss_feed *)

MaxArticles == 2

\* Texts with a raw ampersand, raw angle brackets, markup, a quotation mark,
\* an escaped entity and control characters.
T_Plain == <<"P","l","a","i","n">>
T_RawAmp == <<"A"," ","&"," ","B">>
T_RawAngles == <<"a"," ",">"," ","b"," ","<"," ","c">>
T_Quoted == <<"s","a","y"," ","\"","h","i","\"">>
T_EscapedLt == <<"&","a","m","p",";","l","t",";","b">>
T_Backspace == <<"A", CHAR_BS, "B">>
T_LongEscape == <<"R","e","s","u","l","t","s"," ","&"," ", CHAR_ESC, "[","0","m"," ","n","o","t","e","s">>

FeedTitles == {T_Plain, T_RawAmp, T_RawAngles, T_FooBar, T_Quoted, T_EscapedLt, T_Backspace}

FeedRecord(title, abstract) ==
    Record(List(<<Str(title)>>), Str(<<"1","0",".","1","/","a">>), abstract, Absent,
           Published(List(<<List(<<Num(2024), Num(6), Num(15)>>)>>)))

FeedRecords ==
    {FeedRecord(title, Absent) : title \in FeedTitles}
    \cup {FeedRecord(T_Plain, Str(T_LongEscape))}

RECURSIVE SeqsUpTo(_, _)
SeqsUpTo(S, n) ==
    IF n = 0 THEN {<<>>}
    ELSE LET shorter == SeqsUpTo(S, n - 1)
         IN  shorter \cup {Append(s, x) : s \in shorter, x \in S}

FeedConfigs ==
    {J_Nature, J_Cell,
     [JournalOf(Str(ISSN_Nature), Str(<<"N", CHAR_NUL, " ", "&", " ", "Q">>), Absent)
        EXCEPT !.feed_title = Str(<<"N","e","w","s"," ","<"," ","1","0">>)],
     [J_Nature EXCEPT !.publisher = Str(<<"P","u","b", CHAR_BS>>),
                      !.feed_description = Str(T_FooBar)]}

InitFeed ==
    /\ NoServer
    /\ pc = "feed_input"
    /\ article = Absent /\ item = <<>>
    /\ input_text = Null /\ cleaned = <<>>
    /\ feed_articles \in SeqsUpTo(FeedRecords, MaxArticles)
    /\ feed_config \in FeedConfigs
    /\ document = NoDocument
    /\ NoGenerator

\* create_rss_feed(articles, feed_config)
CreateFeed ==
    /\ pc = "feed_input"
    /\ document' = FeedDocument(feed_articles, feed_config)
    /\ pc' = "feed_created"
    /\ UNCHANGED <<procVars, request, journals_config, journal_config, days_back,
                   max_per_journal, idx, all_articles, calls, response,
                   itemVars, textVars, feed_articles, genVars>>

NextFeed == CreateFeed

SpecFeed == InitFeed /\ [][NextFeed]_vars

-----------------------------------------------------------------------------
(* Config specification: one run of generate_config and of the validation *)

MaxLines == 3

\* Lines of an ISSN list: ISSNs, one with an X and one with blanks around
\* it, a blank line, a comment, and lines that are not ISSNs.
IssnLines ==
    {<<"0","0","2","8","-","0","8","3","6">>,
     <<" ","2","0","4","9","-","3","6","3","X"," ">>,
     <<>>,
     <<"#"," ","0","0","2","8","-","0","8","3","6">>,
     <<"0","0","2","8","-","0","8","3","x">>,
     <<"0","0","2","8","0","8","3","6">>}

\* What the remote service answers to a lookup: a failure, a body that is
\* not 'ok', or a message with or without a title and a publisher.
Lookups ==
    {[kind |-> "RequestException"], [kind |-> "not_ok"],
     [kind |-> "ok", title |-> Str(T_Nature), publisher |-> Str(<<"S","N">>)],
     [kind |-> "ok", title |-> List(<<Str(<<" ", " ">>)>>), publisher |-> Absent],
     [kind |-> "ok", title |-> Absent, publisher |-> Null]}

InitConfig ==
    /\ NoServer
    /\ pc = "config_input"
    /\ article = Absent /\ feed_config = Absent /\ item = <<>>
    /\ input_text = Null /\ cleaned = <<>>
    /\ feed_articles = <<>> /\ document = NoDocument
    /\ issn_file \in SeqsUpTo(IssnLines, MaxLines)
    /\ issns = <<>> /\ config_entries = <<>> /\ lookups = <<>>
    /\ output_file \in {NoFile, [kind |-> "json", v |-> List(<<J_NoIssn>>)]}
    /\ validated = Absent

\* generate_config, lines 176-180: read_issn_list; [] is returned at once
\* when no ISSN is read.
ReadIssnList ==
    /\ pc = "config_input"
    /\ issns' = read_issn_list(issn_file)
    /\ pc' = IF issns' = <<>> THEN "config_returned" ELSE "config_loop"
    /\ UNCHANGED <<procVars, request, journals_config, journal_config, days_back,
                   max_per_journal, idx, all_articles, calls, response,
                   itemVars, textVars, feedVars,
                   issn_file, config_entries, lookups, output_file, validated>>

\* generate_config, lines 186-208: one pass of the loop.
ProcessIssn(remote) ==
    /\ pc = "config_loop"
    /\ Len(config_entries) < Len(issns)
    /\ config_entries' = Append(config_entries, EntryFor(issns[Len(config_entries) + 1], remote))
    /\ lookups' = Append(lookups, remote.kind)
    /\ UNCHANGED <<procVars, handlerVars, itemVars, textVars, feedVars,
                   issn_file, issns, output_file, validated>>

\* generate_config, lines 210-223: json.dump to the output file and return.
SaveConfig ==
    /\ pc = "config_loop"
    /\ Len(config_entries) = Len(issns)
    /\ output_file' = [kind |-> "json", v |-> List(config_entries)]
    /\ pc' = "config_returned"
    /\ UNCHANGED <<procVars, request, journals_config, journal_config, days_back,
                   max_per_journal, idx, all_articles, calls, response,
                   itemVars, textVars, feedVars,
                   issn_file, issns, config_entries, lookups, validated>>

\* main, lines 381-383: the file is validated when entries were returned.
ValidateConfig ==
    /\ pc = "config_returned"
    /\ config_entries /= <<>>
    /\ validated' = validate_generated_config(output_file)
    /\ pc' = "config_validated"
    /\ UNCHANGED <<procVars, request, journals_config, journal_config, days_back,
                   max_per_journal, idx, all_articles, calls, response,
                   itemVars, textVars, feedVars,
                   issn_file, issns, config_entries, lookups, output_file>>

NextConfig ==
    \/ ReadIssnList
    \/ \E remote \in Lookups : ProcessIssn(remote)
    \/ SaveConfig
    \/ ValidateConfig

SpecConfig == InitConfig /\ [][NextConfig]_vars

-----------------------------------------------------------------------------
(* Server specification: the two server programs, from main() to the        *)
(* requests they answer                                                    *)

MaxRecords == 2

\* A journal whose name reads like the ISSN of Nature, and has no ISSN.
J_IssnAsName == JournalOf(Absent, Str(ISSN_Nature), Absent)

\* The registries rss_journals.json may hold.
Registries ==
    {<<>>,
     <<J_Cell>>,
     <<J_Nature, J_NatureBiotechnology>>,
     <<J_NoName, J_NoIssn>>,
     <<J_NoIssn, J_Cell>>,
     <<J_IssnAsName, J_Nature, J_NoIssn>>,
     <<J_Nature, J_IssnAsName>>}

\* rss_journals.json on disk: missing, not JSON, JSON that is not an array,
\* or a registry.
Files ==
    {[kind |-> "missing"], [kind |-> "unparsable"], [kind |-> "json", v |-> Num(5)]}
    \cup {[kind |-> "json", v |-> List(r)] : r \in Registries}

DatedRecord(doi, published) ==
    Record(List(<<Str(<<"A"," ","T","i","t","l","e">>)>>), Str(doi), Absent, Absent, published)

R_Undated == DatedRecord(<<"1","0",".","1","/","a">>, Absent)
R_YearOne == DatedRecord(<<"1","0",".","1","/","b">>, Published(List(<<List(<<Num(1)>>)>>)))
R_2024_06 == DatedRecord(<<"1","0",".","1","/","c">>, Published(List(<<List(<<Num(2024), Num(6)>>)>>)))
R_NullPublished == DatedRecord(<<"1","0",".","1","/","d">>, Null)
R_2024 == DatedRecord(<<"1","0",".","2","/","e">>, Published(List(<<List(<<Num(2024)>>)>>)))
R_2024_06_15 ==
    DatedRecord(<<"1","0",".","2","/","f">>,
                Published(List(<<List(<<Num(2024), Num(6), Num(15)>>)>>)))
R_2024_06_b == DatedRecord(<<"1","0",".","2","/","g">>, Published(List(<<List(<<Num(2024), Num(6)>>)>>)))

\* The works the remote service holds for the j-th journal of the registry;
\* Null is an entry of message.items that is not an object.
RemoteWorks(j) ==
    IF j = 1 THEN {R_Undated, R_YearOne, R_2024_06, R_NullPublished}
    ELSE {R_2024, R_2024_06_15, R_2024_06_b, Null}

\* The sequences of at most n distinct elements of S.
SeqsOfDistinct(S, n) ==
    UNION {{q \in [1..m -> S] : \A i, j \in 1..m : i /= j => q[i] /= q[j]} : m \in 0..n}

\* What the remote service may answer for the j-th journal.
Remotes(j) ==
    {[kind |-> k] : k \in RemoteFailures \cup RemoteEmpty}
    \cup {[kind |-> "items", v |-> q] : q \in SeqsOfDistinct(RemoteWorks(j), MaxRecords)}

QueryDays == {Absent, Str(<<"1","0","0","0","0","0","0">>), Str(<<"a","b","c">>)}
QueryMax == {Absent, Str(<<"2">>), Str(<<"-","5">>), Str(<<"a","b","c">>)}

\* What the remote service may answer to the call of a single-journal feed.
JournalRemotes ==
    {[kind |-> "URLError"], [kind |-> "no_items"],
     [kind |-> "items", v |-> <<R_2024_06_15>>],
     [kind |-> "items", v |-> <<R_NullPublished, Null>>]}

\* The identifiers requests name: ISSNs, names in their normalized form, in
\* upper case and as configured, the empty identifier and an unknown one.
ID_Unknown == <<"9","9","9","9","-","9","9","9","9">>
Identifiers ==
    {ISSN_Nature, ISSN_Cell, ID_Unknown, <<>>,
     <<"n","a","t","u","r","e">>, <<"N","A","T","U","R","E">>, T_Nature,
     <<"n","a","t","u","r","e","_","b","i","o","t","e","c","h","n","o","l","o","g","y">>, <<"N","A","T","U","R","E","_","B","I","O","T","E","C","H","N","O","L","O","G","Y">>, <<"N","a","t","u","r","e","_","B","i","o","t","e","c","h","n","o","l","o","g","y">>, T_NatureBiotechnology,
     <<"c","e","l","l">>, <<"c","e","l","l","_","a","n","d","a","m","p",";","_","<","i",">","c","o","<","/","i",">">>, <<"C","E","L","L","_","A","N","D","A","M","P",";","_","<","I",">","C","O","<","/","I",">">>}

\* The GET requests the servers receive.
Request(path, days, max) == [path |-> path, days |-> days, max |-> max]

Requests ==
    {Request(P_Combined, d, m) : d \in QueryDays, m \in QueryMax}
    \cup {Request(P_Journal \o id, Absent, Absent) : id \in Identifiers}
    \cup {Request(P_Journal \o id, qd, Absent) :
            id \in {ISSN_Nature, ISSN_Cell, ID_Unknown}, qd \in QueryDays \ {Absent}}
    \cup {Request(P_Journal \o id, Absent, Str(<<"a","b","c">>)) :
            id \in {ISSN_Cell, ID_Unknown}}
    \cup {Request(P_Legacy \o id, Absent, Absent) : id \in {ISSN_Cell, ID_Unknown}}
    \cup {Request(P_Root, Absent, Absent), Request(<<"/","f","a","v","i","c","o","n",".","i","c","o">>, Absent, Absent)}

-----------------------------------------------------------------------------
(* main() of the two programs *)

EMAIL_ADDRESS == <<"a","@","b",".","o","r","g">>

\* enhanced_minimal_rss.py, lines 512-529: EMAIL, or else the line typed at
\* the prompt (input() raises EOFError when there is none); then the config
\* file must exist.
main(env_email, typed, file) ==
    LET prompted == ~Truthy(env_email)
        address == IF ~prompted THEN env_email.v
                   ELSE IF typed.k = "str" THEN Strip(typed.v) ELSE <<>>
    IN  [listening |-> address /= <<>> /\ file.kind /= "missing",
         email |-> IF address /= <<>> THEN Str(address) ELSE env_email,
         stdin |-> IF prompted THEN Absent ELSE typed]

\* rss_web_server.py, lines 234-256: the two journals of the default config.
DefaultConfig ==
    [kind |-> "json",
     v |-> List(<<JournalOf(Str(<<"0","0","2","8","-","0","8","3","6">>), Str(T_Nature), Absent),
                  JournalOf(Str(<<"0","0","3","6","-","8","0","7","5">>), Str(<<"S","c","i","e","n","c","e">>), Absent)>>)]

\* rss_web_server.py, lines 22-37 and 258-290: init_generator raises without
\* MW_ADMIN_EMAIL and main() lets it through; a missing config file is
\* replaced by the default one.
flask_main(env_email, file) ==
    [listening |-> Truthy(env_email),
     file |-> IF Truthy(env_email) /\ file.kind = "missing" THEN DefaultConfig ELSE file]

\* CrossrefRSSGenerator.load_journal_config and generate_journal_feed are
\* not in the sources; the specification gives them the behaviour of the
\* operations of the same name in enhanced_minimal_rss.py.
load_journal_config(file) == load_journals_config(file)

CrossrefRSSGenerator_generate_journal_feed(jc, days, max_articles, remote) ==
    generate_journal_feed(jc, days, max_articles, remote)

\* rss_web_server.py, lines 149-182: the two int() calls come first, then the
\* config is loaded and searched.
journal_feed(file, identifier, q_days, q_max, remote) ==
    LET days == int(Get(q_days, Str(<<"7">>)).v)
        max_articles == int(Get(q_max, Str(<<"2","0">>)).v)
        config == load_journal_config(file)
        j == find_journal_by_identifier(config, identifier)
    IN  IF ~days.ok \/ ~max_articles.ok
        THEN [loaded |-> FALSE, found |-> 0, calls |-> <<>>, response |-> [status |-> 500]]
        ELSE IF j = 0
            THEN [loaded |-> TRUE, found |-> 0, calls |-> <<>>, response |-> [status |-> 404]]
        ELSE [loaded |-> TRUE] @@
             FeedAnswer(j, days.v, max_articles.v, remote,
                 CrossrefRSSGenerator_generate_journal_feed(
                     config[j], days.v, max_articles.v, remote))

-----------------------------------------------------------------------------
(* The processes *)

Init ==
    /\ entry \in {"stdlib", "flask"}
    /\ email \in {Absent, Str(<<>>), Str(EMAIL_ADDRESS)}
    /\ stdin \in IF entry = "stdlib" /\ ~Truthy(email)
                 THEN {Absent, Str(<<" ", " ">>), Str(<<" ">> \o EMAIL_ADDRESS)}
                 ELSE {Absent}
    /\ config_file \in Files
    /\ served = FALSE
    /\ request = NoRequest
    /\ journals_config = <<>>
    /\ journal_config = 0
    /\ pc = "start"
    /\ days_back = 0
    /\ max_per_journal = 0
    /\ idx = 0
    /\ all_articles = <<>>
    /\ calls = <<>>
    /\ response = NoResponse
    /\ article = Absent
    /\ feed_config = Absent
    /\ item = <<>>
    /\ input_text = Null
    /\ cleaned = <<>>
    /\ feed_articles = <<>>
    /\ document = NoDocument
    /\ NoGenerator

\* enhanced_minimal_rss.py main(): serve_forever() or return.
StdlibMain ==
    /\ pc = "start" /\ entry = "stdlib"
    /\ LET r == main(email, stdin, config_file)
       IN  /\ pc' = IF r.listening THEN "idle" ELSE "exited"
           /\ email' = r.email
           /\ stdin' = r.stdin
    /\ UNCHANGED <<entry, config_file, served, request, journals_config, journal_config,
                   days_back, max_per_journal, idx, all_articles, calls, response,
                   itemVars, textVars, feedVars, genVars>>

\* rss_web_server.py main(): app.run() or the exception of init_generator.
FlaskMain ==
    /\ pc = "start" /\ entry = "flask"
    /\ LET r == flask_main(email, config_file)
       IN  /\ pc' = IF r.listening THEN "idle" ELSE "exited"
           /\ config_file' = r.file
    /\ UNCHANGED <<entry, email, stdin, served, request, journals_config, journal_config,
                   days_back, max_per_journal, idx, all_articles, calls, response,
                   itemVars, textVars, feedVars, genVars>>

\* Somebody rewrites, removes or damages rss_journals.json while the server
\* waits for a request.
EditConfigFile(file) ==
    /\ pc = "idle"
    /\ file /= config_file
    /\ config_file' = file
    /\ UNCHANGED <<entry, email, stdin, served, handlerVars, itemVars, textVars, feedVars, genVars>>

\* do_GET for '/': FixedHTTPRequestHandler.__init__ constructs a generator,
\* which loads the config file, and serve_index answers 200 unless it raises;
\* then nothing is sent.
ServeIndex(req) ==
    /\ pc = "idle" /\ entry = "stdlib"
    /\ Route(req.path).handler = "index"
    /\ LET config == load_journals_config(config_file)
           r == serve_index(config)
       IN  /\ journals_config' = config
           /\ response' = IF r.kind = "return" THEN [status |-> 200, page |-> r.v]
                          ELSE NoResponse
    /\ request' = req
    /\ pc' = "done"
    /\ UNCHANGED <<procVars, journal_config, days_back, max_per_journal, idx,
                   all_articles, calls, itemVars, textVars, feedVars, genVars>>

\* do_GET for a path that is none of the feeds: send_error(404).
ServeNotFound(req) ==
    /\ pc = "idle" /\ entry = "stdlib"
    /\ Route(req.path).handler = "not_found"
    /\ journals_config' = load_journals_config(config_file)
    /\ response' = [status |-> 404]
    /\ request' = req
    /\ pc' = "done"
    /\ UNCHANGED <<procVars, journal_config, days_back, max_per_journal, idx,
                   all_articles, calls, itemVars, textVars, feedVars, genVars>>

\* The handler has answered a single-journal request: r is what it found,
\* called and sent.
JournalAnswered(req, config, r) ==
    /\ journals_config' = config
    /\ journal_config' = r.found
    /\ calls' = r.calls
    /\ response' = r.response
    /\ request' = req
    /\ pc' = "done"
    /\ UNCHANGED <<procVars, days_back, max_per_journal, idx, all_articles,
                   itemVars, textVars, feedVars, genVars>>

\* do_GET for '/rss/journal/<identifier>' and '/rss/<identifier>':
\* serve_journal_rss.
ServeJournal(req, remote) ==
    /\ pc = "idle" /\ entry = "stdlib"
    /\ Route(req.path).handler = "journal"
    /\ JournalAnswered(req, load_journals_config(config_file),
                       serve_journal_rss(load_journals_config(config_file),
                                         Route(req.path).identifier,
                                         req.days, req.max, remote))

\* rss_web_server.py journal_feed for '/rss/journal/<identifier>'; the config
\* is not read when a query value is rejected.
FlaskJournalFeed(req, remote) ==
    /\ pc = "idle" /\ entry = "flask"
    /\ StartsWithAt(req.path, 1, P_Journal)
    /\ JournalAnswered(req,
           IF int(Get(req.days, Str(<<"7">>)).v).ok /\ int(Get(req.max, Str(<<"2","0">>)).v).ok
           THEN load_journal_config(config_file) ELSE journals_config,
           journal_feed(config_file, Drop(req.path, Len(P_Journal)),
                        req.days, req.max, remote))

\* do_GET for '/rss/combined': the generator is constructed, then
\* serve_combined_rss, lines 464-469 up to the call of generate_combined_feed:
\* a query value int() rejects is answered 500.
ServeCombinedStart(req) ==
    /\ pc = "idle" /\ entry = "stdlib"
    /\ Route(req.path).handler = "combined"
    /\ LET config == load_journals_config(config_file)
           p == CombinedParams(req.days, req.max, Len(config))
       IN  /\ journals_config' = config
           /\ IF p.ok
              THEN /\ pc' = "combined_loop"
                   /\ days_back' = p.days
                   /\ max_per_journal' = p.max_per_journal
                   /\ idx' = 1
                   /\ response' = NoResponse
              ELSE /\ pc' = "done"
                   /\ response' = [status |-> 500]
                   /\ UNCHANGED <<days_back, max_per_journal, idx>>
    /\ request' = req
    /\ all_articles' = <<>>
    /\ calls' = <<>>
    /\ UNCHANGED <<procVars, journal_config, itemVars, textVars, feedVars, genVars>>

\* rss_web_server.py combined_feed for '/rss/combined', lines 125-141 up to
\* the call of generate_combined_feed: a query value int() rejects is
\* answered 500 before the config is read. CrossrefRSSGenerator is not in
\* the sources; its generate_combined_feed is given the steps of the
\* operation of the same name in enhanced_minimal_rss.py.
FlaskCombinedFeed(req) ==
    /\ pc = "idle" /\ entry = "flask"
    /\ req.path = P_Combined
    /\ LET p == combined_feed(req.days, req.max)
       IN  IF p.ok
           THEN /\ journals_config' = load_journal_config(config_file)
                /\ pc' = "combined_loop"
                /\ days_back' = p.days
                /\ max_per_journal' = p.max_per_journal
                /\ idx' = 1
                /\ response' = NoResponse
           ELSE /\ pc' = "done"
                /\ response' = [status |-> 500]
                /\ UNCHANGED <<journals_config, days_back, max_per_journal, idx>>
    /\ request' = req
    /\ all_articles' = <<>>
    /\ calls' = <<>>
    /\ UNCHANGED <<procVars, journal_config, itemVars, textVars, feedVars, genVars>>

\* generate_combined_feed, one pass of the loop of lines 297-312 for a journal
\* without 'issn': the KeyError is swallowed before any call is made.
SkipJournal ==
    /\ pc = "combined_loop"
    /\ idx <= Len(journals_config)
    /\ journals_config[idx].issn.k = "absent"
    /\ idx' = idx + 1
    /\ UNCHANGED <<procVars, request, journals_config, journal_config, pc, days_back,
                   max_per_journal, all_articles, calls, response, itemVars, textVars, feedVars, genVars>>

\* generate_combined_feed, one pass of the loop of lines 297-312: the client
\* call for the idx-th journal and the merge of what it returned.
FetchJournal(remote) ==
    /\ pc = "combined_loop"
    /\ idx <= Len(journals_config)
    /\ journals_config[idx].issn.k /= "absent"
    /\ LET jc == journals_config[idx]
           result == get_recent_articles_by_issn(jc.issn, days_back, max_per_journal, remote)
           body == LoopBody(jc, result)
       IN  /\ all_articles' = all_articles \o body.add
           /\ calls' = Append(calls, CallRecord(idx, days_back, max_per_journal, remote,
                                                result, body.raised))
    /\ idx' = idx + 1
    /\ UNCHANGED <<procVars, request, journals_config, journal_config, pc, days_back,
                   max_per_journal, response, itemVars, textVars, feedVars, genVars>>

\* serve_combined_rss, lines 469-481: what is sent once generate_combined_feed
\* has returned or raised (r).
CombinedAnswered(r) ==
    /\ all_articles' = IF r.kind = "return" THEN r.sorted ELSE all_articles
    /\ response' = IF r.kind = "return" THEN [status |-> 200, body |-> r.v]
                   ELSE [status |-> 500]

\* generate_combined_feed, lines 314-340, and the rest of serve_combined_rss:
\* 200 with the document, or 500 when the sort raised.
FinishCombined ==
    /\ pc = "combined_loop"
    /\ idx > Len(journals_config)
    /\ CombinedAnswered(FinishFeed(all_articles, Len(journals_config)))
    /\ pc' = "done"
    /\ UNCHANGED <<procVars, request, journals_config, journal_config, days_back,
                   max_per_journal, idx, calls, itemVars, textVars, feedVars, genVars>>

\* The server goes on to the next request; the handler of the last one and
\* the generator it constructed are gone.
NextRequest ==
    /\ pc = "done"
    /\ pc' = "idle"
    /\ served' = TRUE
    /\ request' = NoRequest
    /\ journal_config' = 0
    /\ days_back' = 0
    /\ max_per_journal' = 0
    /\ idx' = 0
    /\ all_articles' = <<>>
    /\ calls' = <<>>
    /\ response' = NoResponse
    /\ UNCHANGED <<entry, email, stdin, config_file, journals_config, itemVars, textVars, feedVars, genVars>>

Next ==
    \/ StdlibMain
    \/ FlaskMain
    \/ \E file \in Files : EditConfigFile(file)
    \/ \E req \in Requests : ServeIndex(req)
    \/ \E req \in Requests : ServeNotFound(req)
    \/ \E req \in Requests, remote \in JournalRemotes : ServeJournal(req, remote)
    \/ \E req \in Requests, remote \in JournalRemotes : FlaskJournalFeed(req, remote)
    \/ \E req \in Requests : ServeCombinedStart(req)
    \/ \E req \in Requests : FlaskCombinedFeed(req)
    \/ SkipJournal
    \/ \E remote \in Remotes(idx) : FetchJournal(remote)
    \/ FinishCombined
    \/ NextRequest

Spec == Init /\ [][Next]_vars

-----------------------------------------------------------------------------
(* Properties of one item (specification SpecItem) *)

Elems(it, tag) == SelectSeq(it, LAMBDA e : e.tag = tag)
TextOf(it, tag) == Elems(it, tag)[1].text
Built == pc = "item_built"

LIT_DoiOrg == <<"h","t","t","p","s",":","/","/","d","o","i",".","o","r","g","/">>
LIT_Dots == <<".",".",".">>
LIT_Authors == <<"A","u","t","h","o","r","s",":"," ">>
LIT_EtAl == <<" ","e","t"," ","a","l",".">>
LIT_NoDescription == <<"N","o"," ","d","e","s","c","r","i","p","t","i","o","n"," ","a","v","a","i","l","a","b","l","e">>
LIT_Untitled == <<"U","n","t","i","t","l","e","d">>
LIT_Example == <<"A","u","t","h","o","r","s",":"," ","J","a","n","e"," ","D","o","e",","," ","S","a","m"," ","L","e","e",","," ","A","l"," ","X"," ","e","t"," ","a","l",".">>

HasDoi(a) == a.DOI.k = "str" /\ a.DOI.v /= <<>>

\* C4: an item has a link and a guid exactly when its record has a non-empty
\* DOI; both then read 'https://doi.org/' followed by the DOI and the guid is
\* marked isPermaLink='true'; without a DOI the item has neither element.
C4_LinkGuidIffDoi ==
    Built =>
        LET links == Elems(item, "link")
            guids == Elems(item, "guid")
        IN  IF HasDoi(article)
            THEN /\ Len(links) = 1 /\ Len(guids) = 1
                 /\ links[1].text = LIT_DoiOrg \o article.DOI.v
                 /\ guids[1].text = LIT_DoiOrg \o article.DOI.v
                 /\ guids[1].attrib = {<<"isPermaLink", "true">>}
            ELSE links = <<>> /\ guids = <<>>

C4_Witness ==
    /\ Built /\ HasDoi(article)
    /\ Elems(item, "link") /= <<>> /\ Elems(item, "guid") /= <<>>

\* The cleaned abstract of a record, "" when it has none.
CleanedAbstract(a) == IF a.abstract.k = "str" THEN CleanStr(a.abstract.v) ELSE <<>>

NamePart(author, part) ==
    IF author.v[part].k = "str" THEN CleanStr(author.v[part].v) ELSE <<>>

CleanedName(author) ==
    LET g == NamePart(author, "given")
        f == NamePart(author, "family")
    IN  g \o (IF g /= <<>> /\ f /= <<>> THEN <<" ">> ELSE <<>>) \o f

AuthorsOf(a) == IF a.author.k = "list" THEN a.author.v ELSE <<>>

\* The indexes, among the first n authors, of those with a non-empty name.
NamedAmong(a, n) ==
    {j \in 1..Len(AuthorsOf(a)) : j <= n /\ CleanedName(AuthorsOf(a)[j]) /= <<>>}

\* 'Authors: ' and the names of the named authors among the first 3, joined by
\* ', ', with ' et al.' when the record has more than 3 authors.
RECURSIVE NamesFrom(_, _, _)
NamesFrom(a, j, started) ==
    IF j > 3 \/ j > Len(AuthorsOf(a)) THEN <<>>
    ELSE IF j \in NamedAmong(a, 3)
        THEN (IF started THEN <<",", " ">> ELSE <<>>)
               \o CleanedName(AuthorsOf(a)[j]) \o NamesFrom(a, j + 1, TRUE)
    ELSE NamesFrom(a, j + 1, started)

ExpectedAuthorsText(a) ==
    LIT_Authors \o NamesFrom(a, 1, FALSE)
      \o (IF Len(AuthorsOf(a)) > 3 THEN LIT_EtAl ELSE <<>>)

ExpectedAbstractText(a) ==
    LET c == CleanedAbstract(a)
    IN  IF Len(c) > 500 THEN SubSeq(c, 1, 500) \o LIT_Dots ELSE c

\* C6 as stated: the description is never empty and is the (truncated)
\* cleaned abstract when that is longer than 10 characters, otherwise the
\* 'Authors: ...' string when the record has at least one author with a
\* non-empty cleaned name, otherwise 'No description available'.
C6_Original ==
    Built =>
        LET d == TextOf(item, "description")
        IN  /\ d /= <<>>
            /\ d = IF Len(CleanedAbstract(article)) > 10
                     THEN ExpectedAbstractText(article)
                   ELSE IF NamedAmong(article, Len(AuthorsOf(article))) /= {}
                     THEN ExpectedAuthorsText(article)
                   ELSE LIT_NoDescription

\* C6 (amended): the description is never empty and is the (truncated)
\* cleaned abstract when that is longer than 10 characters, otherwise the
\* 'Authors: ...' string when at least one of the record's first 3 authors has
\* a non-empty cleaned name, otherwise 'No description available'.
C6_DescriptionPriority ==
    Built =>
        LET d == TextOf(item, "description")
        IN  /\ d /= <<>>
            /\ d = IF Len(CleanedAbstract(article)) > 10
                     THEN ExpectedAbstractText(article)
                   ELSE IF NamedAmong(article, 3) /= {}
                     THEN ExpectedAuthorsText(article)
                   ELSE LIT_NoDescription

\* A record whose only named author is the fourth: the literal fallback.
C6_Witness ==
    /\ Built
    /\ Len(CleanedAbstract(article)) <= 10
    /\ NamedAmong(article, 3) = {}
    /\ NamedAmong(article, Len(AuthorsOf(article))) /= {}
    /\ TextOf(item, "description") = LIT_NoDescription

FellBackToAuthors(a) ==
    Len(CleanedAbstract(a)) <= 10 /\ NamedAmong(a, 3) /= {}

\* C7: a description that falls back to the authors is 'Authors: ' followed by
\* the cleaned names of at most the first 3 authors joined by ', ', and ends
\* with ' et al.' exactly when the record has more than 3 authors; the four
\* authors Jane Doe, Sam Lee, Al X, Q Y give
\* 'Authors: Jane Doe, Sam Lee, Al X et al.'.
C7_AuthorsFallback ==
    (Built /\ FellBackToAuthors(article)) =>
        LET d == TextOf(item, "description")
        IN  /\ d = ExpectedAuthorsText(article)
            /\ article.author = FourAuthors => d = LIT_Example

C7_Witness ==
    /\ Built /\ FellBackToAuthors(article)
    /\ article.author = FourAuthors
    /\ TextOf(item, "description") = LIT_Example

\* The canonical title of a record: the first element of the title sequence,
\* or the title itself when it is a plain string; "" when there is none.
CanonicalTitle(a) ==
    IF a.title.k = "str" THEN a.title.v
    ELSE IF a.title.k = "list" /\ a.title.v /= <<>> /\ a.title.v[1].k = "str"
        THEN a.title.v[1].v
    ELSE <<>>

\* C8 as stated: the title is the cleaned canonical title, or 'Untitled'
\* whenever the title is absent or empty (no title, an empty sequence, an
\* empty first element, or a title that cleans to nothing); it is never empty.
C8_Original ==
    Built =>
        LET t == TextOf(item, "title")
        IN  /\ t /= <<>>
            /\ t = IF CleanStr(CanonicalTitle(article)) = <<>> THEN LIT_Untitled
                   ELSE CleanStr(CanonicalTitle(article))

\* The date the first entry of date-parts names, as <<y, m, d>>, or <<>>.
FirstDateEntry(a) ==
    IF /\ a.published.k = "obj"
       /\ a.published.v.date_parts.k = "list"
       /\ a.published.v.date_parts.v /= <<>>
       /\ a.published.v.date_parts.v[1].k = "list"
    THEN a.published.v.date_parts.v[1].v
    ELSE <<>>

MonthLengths(y) ==
    <<31, IF (y % 400 = 0) \/ (y % 4 = 0 /\ y % 100 /= 0) THEN 29 ELSE 28,
      31, 30, 31, 30, 31, 31, 30, 31, 30, 31>>

ResolvedDate(a) ==
    LET e == FirstDateEntry(a)
        n == IF Len(e) > 3 THEN 3 ELSE Len(e)
    IN  IF n = 0 \/ \E j \in 1..n : e[j].k /= "num" THEN <<>>
        ELSE LET y == e[1].v
                 m == IF n >= 2 THEN e[2].v ELSE 1
                 d == IF n >= 3 THEN e[3].v ELSE 1
             IN  IF /\ y >= 1 /\ y <= 9999 /\ m >= 1 /\ m <= 12
                    /\ d >= 1 /\ d <= MonthLengths(y)[m]
                 THEN <<y, m, d>>
                 ELSE <<>>

\* C9: an item has a pubDate exactly when the first entry of date-parts names
\* a valid calendar date: January 1 for [y], the first of the month for
\* [y, m], the day itself for [y, m, d]; a missing, empty or malformed date
\* gives an item without pubDate.
C9_PubDateIffResolvable ==
    Built =>
        LET pds == Elems(item, "pubDate")
            r == ResolvedDate(article)
        IN  IF r /= <<>>
            THEN /\ Len(pds) = 1
                 /\ <<pds[1].text.year, pds[1].text.month, pds[1].text.day>> = r
            ELSE pds = <<>>

C9_Witness ==
    /\ Built
    /\ Len(FirstDateEntry(article)) = 2
    /\ ResolvedDate(article) = <<2024, 6, 1>>
    /\ Elems(item, "pubDate") /= <<>>

\* The subjects of a journal, as configured.
SubjectsOf(fc) == IF fc.subjects.k = "list" THEN fc.subjects.v ELSE <<>>

\* Is the subject a text that is neither empty nor only whitespace?
NonBlankSubject(s) == s.k = "str" /\ \E j \in 1..Len(s.v) : s.v[j] \notin Whitespace

\* The cleaned non-blank subjects among the first 3, in configured order.
ExpectedCategories(fc) ==
    LET first == SubSeq(SubjectsOf(fc), 1, IF Len(SubjectsOf(fc)) > 3 THEN 3 ELSE Len(SubjectsOf(fc)))
        kept == SelectSeq(first, NonBlankSubject)
    IN  [i \in 1..Len(kept) |-> CleanStr(kept[i].v)]

\* C11 as stated: an item carries at most 3 category elements, each holding a
\* cleaned subject of its journal in configured order; no category is emitted
\* for an empty or whitespace-only subject and no category has empty text.
C11_Original ==
    Built =>
        LET cats == Elems(item, "category")
        IN  /\ Len(cats) <= 3
            /\ [i \in 1..Len(cats) |-> cats[i].text] = ExpectedCategories(feed_config)
            /\ \A i \in 1..Len(cats) : cats[i].text /= <<>>

-----------------------------------------------------------------------------
(* Properties of a combined-feed request (specification Spec) *)

\* The request got as far as generate_combined_feed and has been answered.
CombinedDone == entry = "stdlib" /\ pc = "done" /\ idx > 0
CombinedServed == CombinedDone /\ response.status = 200

\* C1 as stated: get_recent_articles_by_issn never propagates an error: every
\* call, whatever its ISSN, days_back, limit and remote outcome, returns a
\* sequence, and an empty one whenever the remote call did not succeed.
C1_Original ==
    \A n \in 1..Len(calls) :
        /\ calls[n].result.kind = "return"
        /\ calls[n].remote \in RemoteFailures => calls[n].result.v = <<>>

\* The records the calls of this request returned for journals whose fetch
\* and processing did not fail, summed over the journals.
RECURSIVE ReturnedCount(_)
ReturnedCount(cs) ==
    IF cs = <<>> THEN 0
    ELSE ReturnedCount(Tail(cs))
           + (IF Head(cs).result.kind = "return" /\ ~Head(cs).raised
              THEN Len(Head(cs).result.v) ELSE 0)

\* C2 as stated: generate_combined_feed produces exactly one item per record
\* the fetches returned: the number of items is the sum over the journals of
\* the records fetched, a journal whose fetch failed or whose processing
\* raised counting zero and never blocking the records of the others.
C2_Original ==
    CombinedDone =>
        /\ response.status = 200
        /\ Len(response.body.items) = ReturnedCount(calls)

\* The i-th item is the item of the i-th record of the sorted merge.
ItemOfRecord(i) ==
    /\ i <= Len(response.body.items)
    /\ TextOf(response.body.items[i], "guid") = LIT_DoiOrg \o all_articles[i].DOI.v

DateAfterOrEqual(a, b) ==
    \/ a[1] > b[1]
    \/ a[1] = b[1] /\ a[2] > b[2]
    \/ a[1] = b[1] /\ a[2] = b[2] /\ a[3] >= b[3]

\* C3 as stated: the items of the combined feed are in non-increasing order
\* of resolved publication date ([y] is y-01-01, [y, m] is y-m-01), and every
\* record without a resolvable date comes after all records that have one.
C3_Original ==
    CombinedServed =>
        /\ Len(response.body.items) = Len(all_articles)
        /\ \A i \in 1..Len(all_articles) : ItemOfRecord(i)
        /\ \A i, j \in 1..Len(all_articles) :
              (i < j /\ ResolvedDate(all_articles[j]) /= <<>>) =>
                  /\ ResolvedDate(all_articles[i]) /= <<>>
                  /\ DateAfterOrEqual(ResolvedDate(all_articles[i]),
                                      ResolvedDate(all_articles[j]))

\* The journals whose call returned the record with this DOI.
OriginsOf(doi) ==
    {calls[n].journal : n \in {m \in 1..Len(calls) :
        /\ calls[m].result.kind = "return"
        /\ \E r \in 1..Len(calls[m].result.v) :
              /\ IsDict(calls[m].result.v[r])
              /\ calls[m].result.v[r].DOI = doi}}

\* C10 as stated: in a combined feed every record carries the JournalConfig of
\* the journal whose fetch returned it, and the source of its item is the
\* cleaned name of that journal.
C10_Original ==
    CombinedServed =>
        \A i \in 1..Len(all_articles) :
            /\ ItemOfRecord(i)
            /\ \A j \in OriginsOf(all_articles[i].DOI) :
                  /\ all_articles[i]["_journal_info"] = journals_config[j]
                  /\ TextOf(response.body.items[i], "source")
                       = clean_text(Get(journals_config[j].name, Str(UNKNOWN_JOURNAL)))

-----------------------------------------------------------------------------
(* Properties of a single-journal request (specification Spec) *)

\* The handler of a single-journal request has finished.
JournalDone == pc = "done" /\ Route(request.path).handler = "journal"

\* ... and it got as far as searching the registry (journal_feed of
\* rss_web_server.py rejects the query values before it searches).
LookupDone ==
    JournalDone /\ ~(entry = "flask" /\ journal_config = 0 /\ response.status = 500)

Identifier == Route(request.path).identifier

\* The normalized form of a name, character by character: lower case, '_'
\* for a space, 'and' for '&'.
RECURSIVE NormalizedForm(_)
NormalizedForm(s) ==
    IF s = <<>> THEN <<>>
    ELSE (CASE s[1] = " " -> <<"_">>
            [] s[1] = "&" -> <<"a","n","d">>
            [] OTHER -> <<LowerChar(s[1])>>) \o NormalizedForm(Tail(s))

NameOf(journal) == IF journal.name.k = "str" THEN journal.name.v ELSE <<>>

\* The configured journals whose ISSN is the identifier, and those whose
\* normalized name is the identifier in lower case.
IssnMatches(id) ==
    {j \in 1..Len(journals_config) : journals_config[j].issn = Str(id)}
NameMatches(id) ==
    {j \in 1..Len(journals_config) :
        NormalizedForm(NameOf(journals_config[j])) = Lower(id)}

\* C12 as stated: the lookup matches first by ISSN and only then by name: when
\* some journal's ISSN equals the identifier the result is a journal with that
\* ISSN, even when an earlier journal's normalized name equals the identifier;
\* a name match is returned only when no ISSN matches; the result is None
\* when nothing matches.
C12_Original ==
    LookupDone =>
        LET I == IssnMatches(Identifier)
            N == NameMatches(Identifier)
        IN  /\ I /= {} => journal_config \in I
            /\ (journal_config /= 0 /\ journal_config \notin I) =>
                   (I = {} /\ journal_config \in N)
            /\ journal_config = 0 <=> (I = {} /\ N = {})

\* C13 as stated: looking up the normalized name of a configured journal, in
\* any letter case, returns a journal whose normalized name equals that
\* identifier.
C13_Original ==
    (LookupDone /\ NameMatches(Identifier) /= {}) =>
        /\ journal_config /= 0
        /\ journal_config \in NameMatches(Identifier)

\* C13 (amended): looking up the normalized name of a configured journal, in
\* any letter case, returns the first configured journal whose ISSN is the
\* identifier as written or whose normalized name is the identifier in lower
\* case; its normalized name equals the identifier whenever no configured
\* journal has the identifier as its ISSN.
C13_NameLookup ==
    (LookupDone /\ NameMatches(Identifier) /= {}) =>
        LET hits == IssnMatches(Identifier) \cup NameMatches(Identifier)
        IN  /\ journal_config \in hits
            /\ \A h \in hits : journal_config <= h
            /\ IssnMatches(Identifier) = {} => journal_config \in NameMatches(Identifier)

\* 'NATURE_BIOTECHNOLOGY' finds the journal named 'Nature Biotechnology'.
C13_Witness ==
    /\ LookupDone
    /\ Identifier /= Lower(Identifier)
    /\ journal_config \in NameMatches(Identifier)
    /\ NameOf(journals_config[journal_config]) = T_NatureBiotechnology
    /\ response.status = 200

\* The registry rss_journals.json holds while the request is handled.
Configured == load_journals_config(config_file)

\* No configured journal has the identifier as its ISSN or, in lower case, as
\* its normalized name.
Unresolvable(id) ==
    \A j \in 1..Len(Configured) :
        /\ Configured[j].issn /= Str(id)
        /\ NormalizedForm(NameOf(Configured[j])) /= Lower(id)

\* C14 as stated: a single-journal request whose identifier resolves to no
\* configured journal is answered 404 and never 500, whatever its days and
\* max values are (absent or not numbers included), and no remote call is
\* made for it.
C14_Original ==
    (JournalDone /\ Unresolvable(Identifier)) =>
        /\ response.status = 404
        /\ calls = <<>>

-----------------------------------------------------------------------------
(* Properties of the parameters of a combined-feed request *)

\* A combined-feed request is being handled or has been answered after its
\* parameters were accepted.
CombinedRunning == (entry = "stdlib" /\ pc = "combined_loop") \/ CombinedDone

\* The requested max M and days of the request, with their defaults.
RequestedMax == IF request.max = Absent THEN 20 ELSE int(request.max.v).v
RequestedDays == IF request.days = Absent THEN 7 ELSE int(request.days.v).v

\* The number n of configured journals.
JournalCount == Len(Configured)

\* max(1, floor(M / max(1, n))), with floor and max written out.
ExpectedLimit ==
    LET d == IF JournalCount >= 1 THEN JournalCount ELSE 1
        q == CHOOSE k \in -10..RequestedMax + 10 :
                 k * d <= RequestedMax /\ RequestedMax < (k + 1) * d
    IN  IF q >= 1 THEN q ELSE 1

\* C15: for GET /rss/combined with requested max M (default 20), days
\* (default 7) and n configured journals, every fetch of the request is made
\* with days and with the limit max(1, floor(M / max(1, n))); n times the limit
\* is at most M when M >= n > 0 and is n when 0 < M < n; a journal that has an
\* ISSN is fetched exactly once.
C15_LimitPerJournal ==
    CombinedRunning =>
        /\ \A c \in 1..Len(calls) :
               /\ calls[c].limit = ExpectedLimit
               /\ calls[c].days_back = RequestedDays
        /\ (RequestedMax >= JournalCount /\ JournalCount > 0)
               => JournalCount * ExpectedLimit <= RequestedMax
        /\ (0 < RequestedMax /\ RequestedMax < JournalCount)
               => JournalCount * ExpectedLimit = JournalCount
        /\ CombinedDone =>
               \A j \in 1..JournalCount :
                   Configured[j].issn.k /= "absent" =>
                       Cardinality({c \in 1..Len(calls) : calls[c].journal = j}) = 1

\* Three journals and the default max of 20: each fetch asks for 6 articles,
\* the remainder of 2 is dropped.
C15_Witness ==
    /\ CombinedDone
    /\ request.max = Absent /\ request.days = Absent
    /\ JournalCount = 3
    /\ Len(calls) >= 1
    /\ \A c \in 1..Len(calls) : calls[c].limit = 6 /\ calls[c].days_back = 7

-----------------------------------------------------------------------------
(* Properties of a server whose config file cannot be loaded *)

\* The standard-library server is handling or has answered a request.
Handling == entry = "stdlib" /\ pc \in {"combined_loop", "done"}

LoadFails == config_file.kind \in {"missing", "unparsable"}

\* C16: load_journals_config never raises: when the config file is missing or
\* cannot be parsed the generator of the request is constructed with an empty
\* registry, every single-journal request is answered not-found without a
\* fetch, the combined feed is served with zero items, and every request is
\* answered.
C16_EmptyRegistryOnLoadFailure ==
    (Handling /\ LoadFails) =>
        /\ journals_config = <<>>
        /\ JournalDone =>
               /\ journal_config = 0
               /\ response.status = 404
               /\ calls = <<>>
        /\ CombinedDone =>
               /\ response.status = 200
               /\ response.body.items = <<>>
               /\ calls = <<>>
        /\ pc = "done" => response.status \in {200, 404, 500}

\* The config file went missing after the server had answered a request, and
\* the combined feed is served, empty.
C16_Witness ==
    /\ Handling /\ served
    /\ config_file.kind = "missing"
    /\ CombinedServed
    /\ response.body.items = <<>>

-----------------------------------------------------------------------------
(* Properties of startup *)

\* The step main() takes from the start of the process: to listening for
\* requests, or to the end of the process.
Startup == pc = "start" /\ pc' \in {"idle", "exited"}

\* C17 as stated: in each entry point, listening for requests is reached
\* only if a non-empty contact email is available and the config file exists
\* when the process starts; when either is missing the process ends without
\* serving a request.
C17_Original ==
    [][Startup =>
          (pc' = "idle" <=> (Truthy(email') /\ config_file.kind /= "missing"))]_vars

-----------------------------------------------------------------------------
(* Properties of the registry over the life of the process *)

\* A request is taken up by a server that has answered at least one before,
\* and journals_config is the registry an earlier request ran on (a request
\* to journal_feed of rss_web_server.py whose query values are rejected does
\* not get as far as a registry).
LaterRequest ==
    /\ served /\ pc = "idle" /\ pc' /= "idle"
    /\ entry = "stdlib" \/ journals_config /= <<>>

\* C18 as stated: the registry is loaded once at startup and is immutable
\* for the process lifetime: a request taken up after another one runs on the
\* registry the earlier one ran on, even when the config file changed between
\* the two.
C18_Original ==
    [][LaterRequest => journals_config' = journals_config]_vars

-----------------------------------------------------------------------------
(* Properties of do_GET *)

\* do_GET of FixedHTTPRequestHandler has finished.
HandlerFinished == entry = "stdlib" /\ pc = "done"

\* C19 as stated: no single request can crash the server: for every GET
\* request, whatever its path, its query parameters, the registry (entries
\* lacking 'issn' or 'name' included) and the remote outcome, do_GET finishes
\* having sent one response with status 200, 404 or 500 and no exception
\* escapes the handler.
C19_Original ==
    HandlerFinished => response.status \in {200, 404, 500}

-----------------------------------------------------------------------------
(* Properties of clean_text (specification SpecText) *)

Cleaned == pc = "text_cleaned"

\* A markup tag: '<', one or more characters other than '>', '>'.
HasTag(s) ==
    \E i, j \in 1..Len(s) :
        /\ s[i] = "<" /\ s[j] = ">" /\ j > i + 1
        /\ \A k \in (i + 1)..(j - 1) : s[k] /= ">"

\* C20: for every input text clean_text returns a text without a markup tag,
\* whether the tag was written literally or entity-escaped in the input, with
\* the character entities decoded: clean('<i>Foo &amp; Bar</i>') is
\* 'Foo & Bar' and clean('A &lt;b&gt; Title &lt;/b&gt;') is 'A Title'.
C20_NoTagLeft ==
    Cleaned =>
        /\ ~HasTag(cleaned)
        /\ input_text = Str(T_FooBar) => cleaned = <<"F","o","o"," ","&"," ","B","a","r">>
        /\ input_text = Str(T_ATitle) => cleaned = <<"A"," ","T","i","t","l","e">>
        /\ input_text = Str(<<"&","l","t",";","b","&","g","t",";","b">>) => cleaned = <<"b">>
        /\ input_text = Str(<<"&","a","m","p",";","b">>) => cleaned = <<"&","b">>

\* An entity-escaped tag around a letter: the tag is gone, the letter stays.
C20_Witness ==
    /\ Cleaned
    /\ input_text = Str(<<"&","l","t",";","b","&","g","t",";","b">>)
    /\ cleaned = <<"b">>

-----------------------------------------------------------------------------
(* Properties of create_rss_feed (specification SpecFeed) *)

Created == pc = "feed_created"

\* An '&' that does not start one of the references XML predefines.
UnescapedAmpersand(s) == \E i \in 1..Len(s) : s[i] = "&" /\ ~IsReferenceAt(s, i)

\* C21 as stated: for every input, texts with raw ampersands, angle
\* brackets, markup or control characters included, create_rss_feed returns a
\* document whose text nodes contain no control character and no unescaped
\* '&', '<' or '>'.
C21_Original ==
    Created =>
        /\ document.kind = "return"
        /\ \A s \in TextNodes(document.v) :
               /\ \A i \in 1..Len(s) : s[i] \notin XmlInvalidChars \cup {"<", ">"}
               /\ ~UnescapedAmpersand(s)

\* The tree create_rss_feed built before it serialized it.
Tree == create_rss_feed(feed_articles, feed_config)

\* Pretty-printing the serialized tree raises.
PrettyPrintFails == parseString(tostring(Tree)).kind = "raise"

\* The element written is the element of the tree: its tag (the Atom link
\* under its prefix), its attributes, and its text once the references are
\* read back.
SameElement(written, e) ==
    /\ written.tag = (IF e.tag = "atom:link" THEN "ns0:link" ELSE e.tag)
    /\ written.attrib = e.attrib
    /\ IF e.tag \in DateTags THEN written.text = e.text
       ELSE ParsedText(written.text) = e.text

\* C22: create_rss_feed never raises because of the pretty-printing: it
\* always returns, and when pretty-printing raises it returns the unformatted
\* serialization of the same document, with the UTF-8 declaration, the same
\* channel fields and the same items in the same order.
C22_FallbackToRough ==
    Created =>
        /\ document.kind = "return"
        /\ LET tree == Tree
               doc == document.v
           IN  parseString(tostring(tree)).kind = "raise" =>
                   /\ ~doc.pretty
                   /\ doc.declaration = "<?xml version='1.0' encoding='utf-8'?>"
                   /\ Len(doc.channel) = Len(tree.channel)
                   /\ \A i \in 1..Len(tree.channel) :
                          SameElement(doc.channel[i], tree.channel[i])
                   /\ Len(doc.items) = Len(feed_articles)
                   /\ \A i \in 1..Len(tree.items) :
                          /\ Len(doc.items[i]) = Len(tree.items[i])
                          /\ \A j \in 1..Len(tree.items[i]) :
                                 SameElement(doc.items[i][j], tree.items[i][j])

\* Two articles, the first with a backspace in its title: the pretty-printing
\* raised and the unformatted document was returned with both items.
C22_Witness ==
    /\ Created
    /\ PrettyPrintFails
    /\ Len(feed_articles) = 2
    /\ feed_articles[1].title = List(<<Str(T_Backspace)>>)
    /\ feed_articles[2].title = List(<<Str(T_RawAmp)>>)
    /\ document.kind = "return"
    /\ ~document.v.pretty
    /\ Len(document.v.items) = 2

-----------------------------------------------------------------------------
(* Properties of the calls of a combined-feed request *)

\* The calls of the request that got as far as the remote service (the date
\* arithmetic of line 31 comes before the request is sent).
IssuedCalls == SelectSeq(calls, LAMBDA c : c.result.kind = "return")

\* C23 as stated: for one combined-feed request exactly one remote call is
\* issued per configured journal, in registry order, none is repeated, and
\* the feed is sorted and assembled only after the call for the last journal
\* has returned.
C23_Original ==
    CombinedRunning =>
        /\ \A c \in 1..Len(IssuedCalls) : IssuedCalls[c].journal = c
        /\ pc = "combined_loop" =>
               /\ Len(IssuedCalls) = idx - 1
               /\ response = NoResponse
        /\ CombinedDone => Len(IssuedCalls) = Len(journals_config)

-----------------------------------------------------------------------------
(* Properties of records without a publication date *)

\* The records of the request for which no publication date resolves.
UndatedRecords == {i \in 1..Len(all_articles) : ResolvedDate(all_articles[i]) = <<>>}

\* C24 as stated: a record whose 'published' is absent, null, without
\* date-parts or with empty or malformed date-parts never makes the combined
\* feed fail: the feed is returned, and the record is an item of it without
\* pubDate that comes after all dated items.
C24_Original ==
    (CombinedDone /\ UndatedRecords /= {}) =>
        /\ response.status = 200
        /\ Len(response.body.items) = Len(all_articles)
        /\ \A i \in UndatedRecords :
               /\ ItemOfRecord(i)
               /\ Elems(response.body.items[i], "pubDate") = <<>>
               /\ \A j \in 1..Len(all_articles) : j \notin UndatedRecords => j < i

-----------------------------------------------------------------------------
(* C25 *)

\* generate_config has returned.
ConfigReturned == pc \in {"config_returned", "config_validated"}

\* A line of the list that is an ISSN of the format NNNN-NNNC once the blanks
\* around it are removed: four digits, a hyphen, three digits and a digit or X.
IsIssnLine(line) ==
    LET s == Strip(line)
        digits == CharsOf(DigitChars)
    IN  /\ Len(s) = 9
        /\ {s[i] : i \in 1..4} \cup {s[i] : i \in 6..8} \subseteq digits
        /\ s[5] = "-"
        /\ s[9] = "X" \/ s[9] \in digits

RequiredFields == {"name", "issn", "feed_title", "feed_description"}

\* C25: when generate_config has returned, its entries are the ISSN lines of
\* the input, one entry each and in the order of the file; the entry of a
\* lookup that failed is the fallback entry; every entry has the four
\* required fields and an ISSN of the format; a list that is not empty has
\* been written to the output file, and the validation of that file, when it
\* has run, has accepted it.
C25_OneEntryPerIssnLine ==
    ConfigReturned =>
        LET valid == SelectSeq(issn_file, IsIssnLine)
        IN  /\ Len(config_entries) = Len(valid)
            /\ \A i \in 1..Len(valid) :
                   /\ config_entries[i].issn = Str(Strip(valid[i]))
                   /\ \A field \in RequiredFields : config_entries[i][field].k = "str"
                   /\ IsIssnLine(config_entries[i].issn.v)
                   /\ lookups[i] /= "ok" =>
                          /\ config_entries[i].name = Str(LIT_Journal \o Strip(valid[i]))
                          /\ config_entries[i].note /= Absent
            /\ valid /= <<>> => output_file = [kind |-> "json", v |-> List(config_entries)]
            /\ pc = "config_validated" => validated = TRUE

\* A list with a comment and two ISSNs, one of them between blanks; the
\* first lookup failed and the second did not, and the written file has been
\* validated.
C25_Witness ==
    /\ pc = "config_validated"
    /\ validated = TRUE
    /\ Len(issn_file) = 3
    /\ \E i \in 1..3 : issn_file[i] /= <<>> /\ issn_file[i][1] = "#"
    /\ \E i \in 1..3 : issn_file[i] /= <<>> /\ issn_file[i][1] = " "
    /\ Len(config_entries) = 2
    /\ lookups[1] /= "ok" /\ lookups[2] = "ok"

-----------------------------------------------------------------------------
(* C26 *)

\* A request for the combined feed that the Flask handler has passed on to
\* the generator.
FlaskCombinedRunning == entry = "flask" /\ pc \in {"combined_loop", "done"} /\ idx > 0

\* C26 as stated: for the requested max and a registry of n journals, the
\* Flask /rss/combined handler passes the per-journal limit the
\* standard-library handler passes: max divided across the n configured
\* journals, with a minimum of 1.
C26_Original ==
    FlaskCombinedRunning =>
        /\ max_per_journal = ExpectedLimit
        /\ max_per_journal = CombinedParams(request.days, request.max, JournalCount).max_per_journal
====
